---- MODULE Spec2Model ----
(***************************************************************************)
(* A model of victor's layout core: the box tree builder                   *)
(* (victor/src/layout/boxes/construct.rs) and flow layout                  *)
(* (victor/src/layout/flow/mod.rs), with the length and geometry helpers   *)
(* they use (style/values/length.rs, geom.rs, style/properties.rs), and of  *)
(* the parts around it: the mutex (raw_mutex.rs), the links of the DOM     *)
(* tree (dom/mod.rs), the cascade (style/cascade.rs) and the structure of  *)
(* a PDF document (pdf/document_structure.rs).                             *)
(***************************************************************************)
EXTENDS Integers, Sequences, FiniteSets, TLC

VARIABLES
    \* ---- box tree builder (construct.rs) ----
    frames,      \* call stack of BlockContainerBuilder::build invocations
    pc,          \* "building" | "built" | "panic" | "idle"
    panic_msg,   \* message of the panic that aborted the run, "" if none
    result,      \* what the outermost build returned
    nodes,       \* number of DOM nodes the cursors have yielded so far
    lead,        \* ghost: what the last handle_text did with leading whitespace
    \* ---- flow layout (flow/mod.rs) ----
    lay,         \* one layout_block_level_children call in progress
    \* ---- geometry (geom.rs) ----
    geom,        \* a vector and sides, and what the conversions made of them
    \* ---- the parts around the layout core ----
    mutex,       \* a RawMutex, its parking queue and the threads using it
    dom,         \* the links of the nodes of a dom::Document
    casc,        \* the declarations matching an element, and the cascade
    pdf          \* a PdfDocument being written

buildVars == <<frames, pc, panic_msg, result, nodes, lead>>
layoutVars == <<lay>>
geomVars == <<geom>>
supportVars == <<mutex, dom, casc, pdf>>
vars == <<frames, pc, panic_msg, result, nodes, lead, lay, geom, mutex, dom, casc, pdf>>

----------------------------------------------------------------------------
(* Bounds of the model *)

\* DOM nodes (text, element, comment) one build run may consume
MaxNodes == 3
\* length of the text nodes drawn for the whitespace-collapsing runs
MaxTextLen == 4

----------------------------------------------------------------------------
(* Sequence helpers *)

Last(s) == s[Len(s)]
Front(s) == SubSeq(s, 1, Len(s) - 1)

RECURSIVE SeqsUpTo(_, _)
SeqsUpTo(S, n) ==
    IF n = 0 THEN {<<>>}
    ELSE LET shorter == SeqsUpTo(S, n - 1)
         IN shorter \cup {Append(s, x) : s \in {t \in shorter : Len(t) = n - 1}, x \in S}

----------------------------------------------------------------------------
(* Text: a str is a sequence of one-character strings *)

\* u8::is_ascii_whitespace: space, tab, line feed, form feed, carriage return
is_ascii_whitespace(c) == c \in {" ", "\t", "\n", "\f", "\r"}

\* str::trim_start_matches(is_ascii_whitespace)
RECURSIVE trim_start(_)
trim_start(text) ==
    IF text # <<>> /\ is_ascii_whitespace(Head(text)) THEN trim_start(Tail(text)) ELSE text

\* input.bytes().position(pred): 0 when there is none, else the 1-based index
RECURSIVE PositionFrom(_, _, _)
PositionFrom(text, i, want_ws) ==
    IF i > Len(text) THEN 0
    ELSE IF is_ascii_whitespace(text[i]) = want_ws THEN i
    ELSE PositionFrom(text, i + 1, want_ws)

position(text, want_ws) == PositionFrom(text, 1, want_ws)

ends_with_space(text) == text # <<>> /\ Last(text) = " "

----------------------------------------------------------------------------
(* Computed styles, as far as box construction reads them.                *)

Auto == [tag |-> "Auto"]
Length(l) == [tag |-> "Length", v |-> l]
Percentage(p) == [tag |-> "Percentage", v |-> p]

PhysicalSides(t, l, b, r) == [top |-> t, left |-> l, bottom |-> b, right |-> r]

\* ComputedValues::initial(), with the display the user agent sheet gives a div
InitialValues ==
    [display |-> "block", position |-> "static", float |-> "none",
     width |-> Auto, height |-> Auto,
     margin |-> PhysicalSides(Length(0), Length(0), Length(0), Length(0)),
     padding |-> PhysicalSides(Length(0), Length(0), Length(0), Length(0)),
     border |-> PhysicalSides(Length(0), Length(0), Length(0), Length(0)),
     box_offsets |-> PhysicalSides(Auto, Auto, Auto, Auto)]

\* ComputedValues::anonymous_inheriting_from: none of the properties read
\* here is inherited
AnonymousStyle == InitialValues

is_absolutely_positioned(style) == style.position = "absolute"
is_relatively_positioned(style) == style.position = "relative"
is_floating(style) == style.float # "none"

\* The styles style_for_element hands the builder, one per case of
\* handle_element. A floating or absolutely positioned element is blockified.
ElementStyles ==
    { [InitialValues EXCEPT !.display = "none"],
      [InitialValues EXCEPT !.display = "none", !.position = "absolute", !.float = "left"],
      [InitialValues EXCEPT !.display = "contents"],
      [InitialValues EXCEPT !.display = "inline"],
      InitialValues,
      [InitialValues EXCEPT !.position = "absolute"],
      [InitialValues EXCEPT !.float = "left"] }

----------------------------------------------------------------------------
(* style/values/length.rs.  A Length is an integer number of quarter       *)
(* pixels: f32 halving is exact on such values as long as they stay even,  *)
(* and the inputs drawn below are whole pixels.                            *)

Px(n) == 4 * n

\* impl ops::Div<f32> for Length, for the divisor 2.
div2(l) == l \div 2

\* impl ops::Mul<Percentage> for Length; a Percentage is held in percent
mul_percentage(l, p) == (l * p) \div 100

\* LengthOrPercentage::percentage_relative_to
lp_percentage_relative_to(value, reference) ==
    IF value.tag = "Length" THEN value.v ELSE mul_percentage(reference, value.v)

\* LengthOrPercentageOrAuto::percentage_relative_to
lpa_percentage_relative_to(value, reference) ==
    CASE value.tag = "Length" -> Length(value.v)
      [] value.tag = "Percentage" -> Length(mul_percentage(reference, value.v))
      [] value.tag = "Auto" -> Auto

\* LengthOrAuto::auto_is
auto_is(value, auto_value) == IF value.tag = "Length" THEN value.v ELSE auto_value

----------------------------------------------------------------------------
(* geom.rs *)

HorizontalTbLtr == [writing_mode |-> "HorizontalTb", direction |-> "Ltr"]

FlowRelativeSides(is, ie, bs, be) ==
    [inline_start |-> is, inline_end |-> ie, block_start |-> bs, block_end |-> be]
Vec2(i, b) == [inline |-> i, block |-> b]
Vec2Zero == Vec2(0, 0)
Rect(start_corner, size) == [start_corner |-> start_corner, size |-> size]

\* physical::Vec2::size_to_flow_relative
size_to_flow_relative(v, mode) ==
    IF mode.writing_mode = "HorizontalTb" THEN Vec2(v.x, v.y) ELSE Vec2(v.y, v.x)

\* flow_relative::Vec2::size_to_physical
SizeToPhysicalNeverSwaps(v, mode) == [x |-> v.inline, y |-> v.block]
size_to_physical(v, mode) ==
    IF mode.writing_mode = "HorizontalTb"
    THEN [x |-> v.inline, y |-> v.block]
    ELSE [x |-> v.block, y |-> v.inline]

\* physical::Sides::to_flow_relative
to_flow_relative(sides, mode) ==
    LET wm == mode.writing_mode
        block_axis ==
            CASE wm = "HorizontalTb" -> <<sides.top, sides.bottom>>
              [] wm \in {"VerticalRl", "SidewaysRl"} -> <<sides.right, sides.left>>
              [] wm \in {"VerticalLr", "SidewaysLr"} -> <<sides.left, sides.right>>
        inline_axis ==
            CASE wm = "HorizontalTb" /\ mode.direction = "Ltr" -> <<sides.left, sides.right>>
              [] wm = "HorizontalTb" /\ mode.direction = "Rtl" -> <<sides.right, sides.left>>
              [] \/ (wm \in {"VerticalRl", "SidewaysRl", "VerticalLr"} /\ mode.direction = "Ltr")
                 \/ (wm = "SidewaysLr" /\ mode.direction = "Rtl") -> <<sides.top, sides.bottom>>
              [] OTHER -> <<sides.bottom, sides.top>>
    IN FlowRelativeSides(inline_axis[1], inline_axis[2], block_axis[1], block_axis[2])

\* flow_relative::Sides::map, with the closures it is called with:
\* percentages_relative_to on sides of LengthOrPercentage ...
sides_percentages_relative_to(sides, basis) ==
    FlowRelativeSides(lp_percentage_relative_to(sides.inline_start, basis),
                      lp_percentage_relative_to(sides.inline_end, basis),
                      lp_percentage_relative_to(sides.block_start, basis),
                      lp_percentage_relative_to(sides.block_end, basis))
\* ... percentages_relative_to on sides of LengthOrPercentageOrAuto ...
sides_percentages_relative_to_or_auto(sides, basis) ==
    FlowRelativeSides(lpa_percentage_relative_to(sides.inline_start, basis),
                      lpa_percentage_relative_to(sides.inline_end, basis),
                      lpa_percentage_relative_to(sides.block_start, basis),
                      lpa_percentage_relative_to(sides.block_end, basis))
\* ... and auto_is on sides of LengthOrAuto
sides_auto_is(sides, auto_value) ==
    FlowRelativeSides(auto_is(sides.inline_start, auto_value),
                      auto_is(sides.inline_end, auto_value),
                      auto_is(sides.block_start, auto_value),
                      auto_is(sides.block_end, auto_value))

\* flow_relative::Sides::inline_sum, block_sum, start_corner
inline_sum(sides) == sides.inline_start + sides.inline_end
block_sum(sides) == sides.block_start + sides.block_end
start_corner(sides) == Vec2(sides.inline_start, sides.block_start)

\* impl Add for &flow_relative::Sides
sides_add(a, b) ==
    FlowRelativeSides(a.inline_start + b.inline_start, a.inline_end + b.inline_end,
                      a.block_start + b.block_start, a.block_end + b.block_end)

\* &Vec2 + &Vec2
vec2_add(a, b) == Vec2(a.inline + b.inline, a.block + b.block)

----------------------------------------------------------------------------
(* style/properties.rs: the flow-relative views of a ComputedValues *)

\* ComputedValues::writing_mode: the only supported mode
writing_mode(style) == HorizontalTbLtr

\* ComputedValues::box_size
box_size(style) ==
    size_to_flow_relative([x |-> style.width, y |-> style.height], writing_mode(style))

\* ComputedValues::padding, border_width, margin
padding(style) == to_flow_relative(style.padding, writing_mode(style))
border_width(style) == to_flow_relative(style.border, writing_mode(style))
margin(style) == to_flow_relative(style.margin, writing_mode(style))
box_offsets(style) == to_flow_relative(style.box_offsets, writing_mode(style))

----------------------------------------------------------------------------
(* construct.rs: ContainsFloats *)

\* impl BitOrAssign for ContainsFloats
BitOrAssignMissesYes(self, other) == self
bitor_assign(self, other) == IF other = "Yes" THEN "Yes" ELSE self

----------------------------------------------------------------------------
(* construct.rs: the inline-level and block-level boxes *)

TextRun(text) == [kind |-> "TextRun", text |-> text]

\* elem, splits_before and ended_by_split are ghost fields: the element a
\* fragment comes from, how many block-level elements split that element
\* before this fragment, and whether a split ended this fragment.
InlineBox(style, first, last, children, elem) ==
    [kind |-> "InlineBox", style |-> style, first_fragment |-> first,
     last_fragment |-> last, children |-> children,
     elem |-> elem, splits_before |-> 0, ended_by_split |-> FALSE]

BlockFormattingContext(contents, contains_floats) ==
    [contents |-> contents, contains_floats |-> contains_floats]

Deferred == [kind |-> "Deferred"]
InlineFormattingContext(boxes) ==
    [kind |-> "InlineFormattingContext", inline_level_boxes |-> boxes]
BlockLevelBoxes(boxes) == [kind |-> "BlockLevelBoxes", boxes |-> boxes]

SameFormattingContextBlock(style, contents) ==
    [kind |-> "SameFormattingContextBlock", style |-> style, contents |-> contents]
\* an intermediate out-of-flow box has no contents yet
IntermediateOutOfFlow(kind, style) == [kind |-> kind, style |-> style]
\* AbsolutelyPositionedBox / FloatBox { contents, style }
OutOfFlowBox(kind, style, bfc) == [kind |-> kind, style |-> style, contents |-> bfc]

----------------------------------------------------------------------------
(* The document cursor (dom::SubtreeCursorWithDisplayContents).  The       *)
(* cursor is a stack of levels, one per node whose children are being      *)
(* walked; TRUE marks a level entered by pretend_children_are_siblings.    *)
(* The nodes themselves are drawn as the traversal reaches them.           *)

cursor_for_descendants == <<FALSE>>
traverse_children_of_this_node(cursor) == Append(cursor, FALSE)
pretend_children_are_siblings(cursor) == Append(cursor, TRUE)
\* next() leaves an exhausted display:contents level on its own
cursor_in_contents_level(cursor) == Last(cursor)
\* move_to_parent() is Ok below the level the cursor started at
cursor_can_move_to_parent(cursor) == Len(cursor) > 1 /\ ~Last(cursor)
cursor_pop(cursor) == Front(cursor)

----------------------------------------------------------------------------
(* construct.rs: BlockContainerBuilder *)

\* The builder of one BlockContainerBuilder::build call.  ret says what the
\* caller does with the result; seen is the ghost list of what the cursor
\* yielded.  intermediate, flags and out_of_order are ghosts of the parallel
\* finish: the boxes it started from, the flag each finished item reported,
\* and whether an item finished before one of lower index.
NewBuilder(ret) ==
    [block_level_boxes |-> <<>>,
     ongoing_inline_formatting_context |-> <<>>,
     ongoing_inline_boxes_stack |-> <<>>,
     contains_floats |-> "No",
     cursor |-> cursor_for_descendants,
     phase |-> "traverse",
     pending |-> {},
     acc |-> "No",
     out |-> [kind |-> "None"],
     ret |-> ret,
     seen |-> <<>>,
     intermediate |-> <<>>,
     flags |-> <<>>,
     out_of_order |-> FALSE]

\* fn current_inline_level_boxes
current_inline_level_boxes(b) ==
    IF b.ongoing_inline_boxes_stack # <<>>
    THEN Last(b.ongoing_inline_boxes_stack).children
    ELSE b.ongoing_inline_formatting_context

\* current_inline_level_boxes() = boxes
set_current_inline_level_boxes(b, boxes) ==
    IF b.ongoing_inline_boxes_stack # <<>>
    THEN [b EXCEPT !.ongoing_inline_boxes_stack[Len(b.ongoing_inline_boxes_stack)].children = boxes]
    ELSE [b EXCEPT !.ongoing_inline_formatting_context = boxes]

\* fn has_ongoing_inline_formatting_context
has_ongoing_inline_formatting_context(b) ==
    b.ongoing_inline_formatting_context # <<>> \/ b.ongoing_inline_boxes_stack # <<>>

\* The loop of handle_leading_whitespace over the boxes, last to first,
\* descending into inline boxes: "yes" = a text run not ending in a space,
\* "no" = a text run ending in a space, "none" = no text run.
RECURSIVE ScanBack(_)
ScanBack(boxes) ==
    IF boxes = <<>> THEN "none"
    ELSE LET box == Last(boxes)
         IN CASE box.kind = "TextRun" ->
                    IF ends_with_space(box.text) THEN "no" ELSE "yes"
              [] box.kind = "InlineBox" ->
                    LET inner == ScanBack(box.children)
                    IN IF inner = "none" THEN ScanBack(Front(boxes)) ELSE inner
              [] OTHER -> ScanBack(Front(boxes))

\* fn handle_leading_whitespace
handle_leading_whitespace(b, text) ==
    IF text = <<>> \/ ~is_ascii_whitespace(Head(text))
    THEN [preserved |-> FALSE, text |-> text]
    ELSE [preserved |-> ScanBack(current_inline_level_boxes(b)) = "yes",
          text |-> trim_start(text)]

\* The loop of handle_text: what it pushes to output for input
RECURSIVE CollapseKeepsRuns(_)
CollapseKeepsRuns(input) ==
    LET i == position(input, TRUE)
    IN IF i = 0 THEN input
       ELSE SubSeq(input, 1, i - 1) \o <<" ">> \o CollapseKeepsRuns(SubSeq(input, i + 1, Len(input)))
RECURSIVE collapse_loop(_)
collapse_loop(input) ==
    LET i == position(input, TRUE)
    IN IF i = 0 THEN input
       ELSE LET non_whitespace == SubSeq(input, 1, i - 1)
                rest == SubSeq(input, i, Len(input))
                j == position(rest, FALSE)
            IN non_whitespace \o <<" ">> \o
               (IF j = 0 THEN <<>> ELSE collapse_loop(SubSeq(rest, j, Len(rest))))

\* fn handle_text
HandleTextAlwaysNewRun(b, input) ==
    LET lw == handle_leading_whitespace(b, input)
        inlines == current_inline_level_boxes(b)
        pushed == (IF lw.preserved THEN <<" ">> ELSE <<>>) \o collapse_loop(lw.text)
    IN IF lw.preserved \/ lw.text # <<>>
       THEN set_current_inline_level_boxes(b, Append(inlines, TextRun(pushed)))
       ELSE b
handle_text(b, input) ==
    LET lw == handle_leading_whitespace(b, input)
        inlines == current_inline_level_boxes(b)
        pushed == (IF lw.preserved THEN <<" ">> ELSE <<>>) \o collapse_loop(lw.text)
    IN IF lw.preserved \/ lw.text # <<>>
       THEN IF inlines # <<>> /\ Last(inlines).kind = "TextRun"
            THEN set_current_inline_level_boxes(b,
                    [inlines EXCEPT ![Len(inlines)].text = @ \o pushed])
            ELSE set_current_inline_level_boxes(b, Append(inlines, TextRun(pushed)))
       ELSE b

\* fn handle_inline_level_element
InlineElementStartsAsContinuation(b, style, elem) ==
    [b EXCEPT !.ongoing_inline_boxes_stack =
                    Append(@, InlineBox(style, FALSE, FALSE, <<>>, elem)),
              !.cursor = traverse_children_of_this_node(@)]
handle_inline_level_element(b, style, elem) ==
    [b EXCEPT !.ongoing_inline_boxes_stack =
                    Append(@, InlineBox(style, TRUE, FALSE, <<>>, elem)),
              !.cursor = traverse_children_of_this_node(@)]

\* fn end_ongoing_inline_formatting_context, after its assertion
EndPushesEmptyContext(b) ==
    [b EXCEPT !.block_level_boxes =
                    Append(@, SameFormattingContextBlock(AnonymousStyle,
                        InlineFormattingContext(b.ongoing_inline_formatting_context))),
              !.ongoing_inline_formatting_context = <<>>]
end_ongoing_inline_formatting_context(b) ==
    IF b.ongoing_inline_formatting_context = <<>>
    THEN b
    ELSE [b EXCEPT !.block_level_boxes =
                        Append(@, SameFormattingContextBlock(AnonymousStyle,
                            InlineFormattingContext(b.ongoing_inline_formatting_context))),
                   !.ongoing_inline_formatting_context = <<>>]

\* the assertion at the top of end_ongoing_inline_formatting_context
ongoing_stack_assertion(b) == b.ongoing_inline_boxes_stack = <<>>

\* The closure of handle_block_level_element: the fragment of an ongoing
\* inline box that ends at the block-level element
fragmented(ongoing) ==
    [ongoing EXCEPT !.last_fragment = FALSE, !.ended_by_split = TRUE]

\* ... and what is left in the stack for the part after it
after_split(ongoing) ==
    [ongoing EXCEPT !.first_fragment = FALSE, !.children = <<>>,
                    !.splits_before = @ + 1]

\* the for loop nesting each fragment into the fragment of its parent
RECURSIVE nest_fragmented(_, _, _)
nest_fragmented(stack, i, fragmented_inline) ==
    IF i = 0 THEN fragmented_inline
    ELSE nest_fragmented(stack, i - 1,
            [fragmented(stack[i]) EXCEPT !.children = Append(@, fragmented_inline)])

\* fn handle_block_level_element, up to its call of
\* end_ongoing_inline_formatting_context
SplitEmptiesStack(b) ==
    LET stack == b.ongoing_inline_boxes_stack
        n == Len(stack)
    IN IF n = 0 THEN b
       ELSE [b EXCEPT !.ongoing_inline_boxes_stack = <<>>,
                      !.ongoing_inline_formatting_context =
                            Append(@, nest_fragmented(stack, n - 1, fragmented(stack[n])))]
split_ongoing_inline_boxes(b) ==
    LET stack == b.ongoing_inline_boxes_stack
        n == Len(stack)
    IN IF n = 0 THEN b
       ELSE [b EXCEPT !.ongoing_inline_boxes_stack = [i \in 1..n |-> after_split(stack[i])],
                      !.ongoing_inline_formatting_context =
                            Append(@, nest_fragmented(stack, n - 1, fragmented(stack[n])))]

\* fn handle_block_level_element, from that call on
push_block_level_element(b, style) ==
    [end_ongoing_inline_formatting_context(b) EXCEPT
        !.block_level_boxes = Append(@, SameFormattingContextBlock(style, Deferred))]

\* fn end_ongoing_inline_box
end_ongoing_inline_box(b) ==
    LET last_ongoing_inline_box ==
            [Last(b.ongoing_inline_boxes_stack) EXCEPT !.last_fragment = TRUE]
        popped == [b EXCEPT !.ongoing_inline_boxes_stack = Front(@)]
    IN set_current_inline_level_boxes(popped,
            Append(current_inline_level_boxes(popped), last_ongoing_inline_box))

\* IntermediateBlockLevelBox::finish, given what building the contents
\* returned: the finished box and the flag it reports
finish_box(box, out) ==
    CASE box.kind = "SameFormattingContextBlock" ->
            [box |-> SameFormattingContextBlock(box.style, out.contents),
             contains_floats |-> out.contains_floats]
      [] box.kind = "OutOfFlowAbsolutelyPositionedBox" ->
            [box |-> OutOfFlowBox(box.kind, box.style,
                        BlockFormattingContext(out.contents, out.contains_floats)),
             contains_floats |-> "No"]
      [] box.kind = "OutOfFlowFloatBox" ->
            [box |-> OutOfFlowBox(box.kind, box.style,
                        BlockFormattingContext(out.contents, out.contains_floats)),
             contains_floats |-> "Yes"]

\* IntermediateBlockContainer::finish of an inline formatting context
finish_inline_formatting_context(box) ==
    [box |-> box, contains_floats |-> "No"]

\* one item of the mapfold_reduce_into of build is done: fold its flag, and
\* collect when it was the last one
FoldFinishedLastFlagWins(b, i, finished) ==
    LET b1 == [b EXCEPT !.block_level_boxes[i] = finished.box,
                        !.acc = finished.contains_floats,
                        !.pending = @ \ {i},
                        !.flags[i] = finished.contains_floats,
                        !.out_of_order = @ \/ \E j \in b.pending : j < i]
    IN IF b1.pending = {}
       THEN [b1 EXCEPT !.phase = "done",
                       !.out = [contents |-> BlockLevelBoxes(b1.block_level_boxes),
                                contains_floats |-> b1.acc]]
       ELSE b1
fold_finished(b, i, finished) ==
    LET b1 == [b EXCEPT !.block_level_boxes[i] = finished.box,
                        !.acc = bitor_assign(@, finished.contains_floats),
                        !.pending = @ \ {i},
                        !.flags[i] = finished.contains_floats,
                        !.out_of_order = @ \/ \E j \in b.pending : j < i]
    IN IF b1.pending = {}
       THEN [b1 EXCEPT !.phase = "done",
                       !.out = [contents |-> BlockLevelBoxes(b1.block_level_boxes),
                                contains_floats |-> b1.acc]]
       ELSE b1

\* BlockContainerBuilder::build once the cursor is exhausted, up to the
\* start of the parallel finish
EndOfTraversalAlwaysWraps(b) ==
    LET b1 == end_ongoing_inline_formatting_context(b)
    IN IF b1.block_level_boxes = <<>>
       THEN [b1 EXCEPT !.phase = "done",
                       !.out = [contents |-> BlockLevelBoxes(<<>>),
                                contains_floats |-> b.contains_floats]]
       ELSE [b1 EXCEPT !.phase = "finish",
                       !.acc = b.contains_floats,
                       !.pending = 1..Len(b1.block_level_boxes),
                       !.intermediate = b1.block_level_boxes,
                       !.flags = [i \in 1..Len(b1.block_level_boxes) |-> "No"]]
end_of_traversal(b) ==
    IF b.ongoing_inline_formatting_context # <<>> /\ b.block_level_boxes = <<>>
    THEN [b EXCEPT !.phase = "done",
                   !.out = [contents |-> InlineFormattingContext(b.ongoing_inline_formatting_context),
                            contains_floats |-> b.contains_floats]]
    ELSE LET b1 == end_ongoing_inline_formatting_context(b)
         IN IF b1.block_level_boxes = <<>>
            THEN [b1 EXCEPT !.phase = "done",
                            !.out = [contents |-> BlockLevelBoxes(<<>>),
                                     contains_floats |-> b.contains_floats]]
            ELSE [b1 EXCEPT !.phase = "finish",
                            !.acc = b.contains_floats,
                            !.pending = 1..Len(b1.block_level_boxes),
                            !.intermediate = b1.block_level_boxes,
                            !.flags = [i \in 1..Len(b1.block_level_boxes) |-> "No"]]

----------------------------------------------------------------------------
(* The builder as a state machine: one action per handler of the loop of   *)
(* BlockContainerBuilder::build.                                           *)

Top == frames[Len(frames)]
SetTop(b) == [frames EXCEPT ![Len(frames)] = b]
Traversing == pc = "building" /\ frames # <<>> /\ Top.phase = "traverse"
Saw(b, ev) == [b EXCEPT !.seen = Append(@, ev)]
TextEvent(t) == [ev |-> "text", text |-> t]
ElementEvent(style) == [ev |-> "element", style |-> style]
NoLead == [text |-> <<>>, preserved |-> FALSE, before |-> NewBuilder([kind |-> "root"])]

Continue == pc' = pc /\ panic_msg' = panic_msg /\ result' = result
Panic(msg) == pc' = "panic" /\ panic_msg' = msg /\ result' = result

\* dom::NodeData::Text => builder.handle_text(contents)
HandleText(t) ==
    /\ Traversing
    /\ nodes < MaxNodes
    /\ frames' = SetTop(handle_text(Saw(Top, TextEvent(t)), t))
    /\ lead' = [text |-> t,
                preserved |-> handle_leading_whitespace(Top, t).preserved,
                before |-> Top]
    /\ nodes' = nodes + 1
    /\ Continue
    /\ UNCHANGED <<layoutVars, geomVars, supportVars>>

\* Document, Doctype, Comment, ProcessingInstruction => {}
HandleOtherNode ==
    /\ Traversing
    /\ nodes < MaxNodes
    /\ frames' = SetTop(Saw(Top, [ev |-> "other"]))
    /\ nodes' = nodes + 1
    /\ Continue
    /\ lead' = NoLead /\ UNCHANGED <<layoutVars, geomVars, supportVars>>

\* handle_element: the arm Display::None => {}
DisplayNoneTraversesChildren(b) ==
    [b EXCEPT !.cursor = traverse_children_of_this_node(@)]
display_none(b) == b

\* handle_element: Display::None => {}
HandleDisplayNone ==
    /\ Traversing
    /\ nodes < MaxNodes
    /\ \E style \in ElementStyles :
        /\ style.display = "none"
        /\ frames' = SetTop(display_none(Saw(Top, ElementEvent(style))))
    /\ nodes' = nodes + 1
    /\ Continue
    /\ lead' = NoLead /\ UNCHANGED <<layoutVars, geomVars, supportVars>>

\* handle_element: the arm Display::Contents
DisplayContentsDescends(b) ==
    [b EXCEPT !.cursor = traverse_children_of_this_node(@)]
display_contents(b) ==
    [b EXCEPT !.cursor = pretend_children_are_siblings(@)]

\* handle_element: Display::Contents => pretend_children_are_siblings
HandleDisplayContents ==
    /\ Traversing
    /\ nodes < MaxNodes
    /\ \E style \in ElementStyles :
        /\ style.display = "contents"
        /\ frames' = SetTop(display_contents(Saw(Top, ElementEvent(style))))
    /\ nodes' = nodes + 1
    /\ Continue
    /\ lead' = NoLead /\ UNCHANGED <<layoutVars, geomVars, supportVars>>

\* cursor.next() runs off the end of a display:contents level and goes on
\* with the siblings of that element
CursorLeaveContents ==
    /\ Traversing
    /\ cursor_in_contents_level(Top.cursor)
    /\ frames' = SetTop([Saw(Top, [ev |-> "end"]) EXCEPT !.cursor = cursor_pop(@)])
    /\ Continue
    /\ lead' = NoLead /\ UNCHANGED <<nodes, layoutVars, geomVars, supportVars>>

\* handle_element: DisplayOutside::Inline => handle_inline_level_element
HandleInlineLevelElement ==
    /\ Traversing
    /\ nodes < MaxNodes
    /\ \E style \in ElementStyles :
        /\ style.display = "inline"
        /\ frames' = SetTop(handle_inline_level_element(
                                Saw(Top, ElementEvent(style)), style, nodes + 1))
    /\ nodes' = nodes + 1
    /\ Continue
    /\ lead' = NoLead /\ UNCHANGED <<layoutVars, geomVars, supportVars>>

\* cursor.next() is None and cursor.move_to_parent() is Ok:
\* builder.end_ongoing_inline_box()
MoveToParent ==
    /\ Traversing
    /\ cursor_can_move_to_parent(Top.cursor)
    /\ LET b == [Saw(Top, [ev |-> "end"]) EXCEPT !.cursor = cursor_pop(@)]
       IN IF b.ongoing_inline_boxes_stack = <<>>
          THEN frames' = SetTop(b) /\ Panic("no ongoing inline level box found")
          ELSE frames' = SetTop(end_ongoing_inline_box(b)) /\ Continue
    /\ lead' = NoLead /\ UNCHANGED <<nodes, layoutVars, geomVars, supportVars>>

\* handle_element: DisplayOutside::Block, in flow => handle_block_level_element
HandleBlockLevelElement ==
    /\ Traversing
    /\ nodes < MaxNodes
    /\ \E style \in ElementStyles :
        /\ style.display = "block"
        /\ ~is_absolutely_positioned(style)
        /\ ~is_floating(style)
        /\ LET b == split_ongoing_inline_boxes(Saw(Top, ElementEvent(style)))
           IN IF ongoing_stack_assertion(b)
              THEN frames' = SetTop(push_block_level_element(b, style)) /\ Continue
              ELSE frames' = SetTop(b)
                   /\ Panic("there should be no ongoing inline level boxes")
    /\ nodes' = nodes + 1
    /\ lead' = NoLead /\ UNCHANGED <<layoutVars, geomVars, supportVars>>

\* fn handle_absolutely_positioned_element / fn handle_float_element, which
\* differ in the kind of box and in the float flag
OutOfFlowLooksAtContextOnly(b, kind, style) ==
    IF b.ongoing_inline_formatting_context = <<>>
    THEN <<[b EXCEPT !.block_level_boxes = Append(@, IntermediateOutOfFlow(kind, style))]>>
    ELSE <<b, NewBuilder([kind |-> "inline", box |-> kind, style |-> style])>>
handle_out_of_flow_element(b, kind, style) ==
    IF ~has_ongoing_inline_formatting_context(b)
    THEN <<[b EXCEPT !.block_level_boxes = Append(@, IntermediateOutOfFlow(kind, style))]>>
    ELSE \* IndependentFormattingContext::build runs before the push
         <<b, NewBuilder([kind |-> "inline", box |-> kind, style |-> style])>>

\* handle_element: position absolute => handle_absolutely_positioned_element
HandleAbsolutelyPositionedElement ==
    /\ Traversing
    /\ nodes < MaxNodes
    /\ \E style \in ElementStyles :
        /\ style.display = "block"
        /\ is_absolutely_positioned(style)
        /\ frames' = Front(frames) \o
                handle_out_of_flow_element(Saw(Top, ElementEvent(style)),
                                           "OutOfFlowAbsolutelyPositionedBox", style)
    /\ nodes' = nodes + 1
    /\ Continue
    /\ lead' = NoLead /\ UNCHANGED <<layoutVars, geomVars, supportVars>>

\* fn handle_float_element: self.contains_floats = ContainsFloats::Yes
FloatElementLeavesFlag(b) == b
mark_contains_floats(b) == [b EXCEPT !.contains_floats = "Yes"]

\* handle_element: floating => handle_float_element
HandleFloatElement ==
    /\ Traversing
    /\ nodes < MaxNodes
    /\ \E style \in ElementStyles :
        /\ style.display = "block"
        /\ ~is_absolutely_positioned(style)
        /\ is_floating(style)
        /\ frames' = Front(frames) \o
                handle_out_of_flow_element(
                    mark_contains_floats(Saw(Top, ElementEvent(style))),
                    "OutOfFlowFloatBox", style)
    /\ nodes' = nodes + 1
    /\ Continue
    /\ lead' = NoLead /\ UNCHANGED <<layoutVars, geomVars, supportVars>>

\* cursor.next() is None and move_to_parent() fails: the loop breaks, and
\* build goes on to its end
EndTraversal ==
    /\ Traversing
    /\ Len(Top.cursor) = 1
    /\ IF Top.ongoing_inline_boxes_stack # <<>>
       THEN frames' = frames /\ Panic("ongoing_inline_boxes_stack.is_empty()")
       ELSE frames' = SetTop(end_of_traversal(Top)) /\ Continue
    /\ lead' = NoLead /\ UNCHANGED <<nodes, layoutVars, geomVars, supportVars>>

\* One item of block_level_boxes.into_par_iter(): intermediate.finish.  The
\* items are independent of one another and are taken in any order.
FinishBox ==
    /\ pc = "building" /\ frames # <<>>
    /\ Top.phase = "finish"
    /\ \E i \in Top.pending :
        LET box == Top.block_level_boxes[i]
        IN IF box.kind = "SameFormattingContextBlock"
              /\ box.contents.kind = "InlineFormattingContext"
           THEN frames' = SetTop(fold_finished(Top, i, finish_inline_formatting_context(box)))
           ELSE frames' = Append(frames, NewBuilder([kind |-> "finish", index |-> i]))
    /\ Continue
    /\ lead' = NoLead /\ UNCHANGED <<nodes, layoutVars, geomVars, supportVars>>

\* BlockContainerBuilder::build returns to its caller
BuildReturn ==
    /\ pc = "building" /\ frames # <<>>
    /\ Top.phase = "done"
    /\ IF Len(frames) = 1
       THEN /\ frames' = <<>>
            /\ result' = Top.out
            /\ pc' = "built"
            /\ panic_msg' = panic_msg
       ELSE LET caller == frames[Len(frames) - 1]
                ret == Top.ret
                resumed ==
                    IF ret.kind = "finish"
                    THEN fold_finished(caller, ret.index,
                            finish_box(caller.block_level_boxes[ret.index], Top.out))
                    ELSE set_current_inline_level_boxes(caller,
                            Append(current_inline_level_boxes(caller),
                                   OutOfFlowBox(ret.box, ret.style,
                                        BlockFormattingContext(Top.out.contents,
                                                               Top.out.contains_floats))))
            IN /\ frames' = Append(SubSeq(frames, 1, Len(frames) - 2), resumed)
               /\ Continue
    /\ lead' = NoLead /\ UNCHANGED <<nodes, layoutVars, geomVars, supportVars>>

\* The texts the cursor yields in the builder runs
Texts == { <<"a">>, <<" ", "b">>, <<"c", " ">>, <<" ">> }

LayoutIdle == lay = [phase |-> "idle"]
GeomIdle == geom = [phase |-> "idle"]
MutexIdle == mutex = [phase |-> "idle"]
DomIdle == dom = [phase |-> "idle"]
CascadeIdle == casc = [phase |-> "idle"]
PdfIdle == pdf = [phase |-> "idle"]
SupportIdle == MutexIdle /\ DomIdle /\ CascadeIdle /\ PdfIdle

BuildInit ==
    /\ frames = <<NewBuilder([kind |-> "root"])>>
    /\ pc = "building"
    /\ panic_msg = ""
    /\ result = [kind |-> "None"]
    /\ nodes = 0
    /\ lead = NoLead
    /\ LayoutIdle
    /\ GeomIdle
    /\ SupportIdle

BuildNext ==
    \/ \E t \in Texts : HandleText(t)
    \/ HandleOtherNode
    \/ HandleDisplayNone
    \/ HandleDisplayContents
    \/ CursorLeaveContents
    \/ HandleInlineLevelElement
    \/ MoveToParent
    \/ HandleBlockLevelElement
    \/ HandleAbsolutelyPositionedElement
    \/ HandleFloatElement
    \/ EndTraversal
    \/ FinishBox
    \/ BuildReturn

BuildSpec == BuildInit /\ [][BuildNext]_vars

\* The texts handed to handle_text as the first node of a container
TextInputs ==
    SeqsUpTo({"a", "b", " ", "\t"}, MaxTextLen)
    \cup { <<" ", " ", "a", " ", " ", " ", "b", " ", " ">> }

TextNext == \E t \in TextInputs : nodes = 0 /\ HandleText(t)

TextSpec == BuildInit /\ [][TextNext]_vars

----------------------------------------------------------------------------
(* Fragments, and the parts of layout that flow/mod.rs calls *)

BoxFragment(style, children, content_rect, pad, bord, marg) ==
    [kind |-> "Box", style |-> style, children |-> children,
     content_rect |-> content_rect, padding |-> pad, border |-> bord, margin |-> marg]

\* AnonymousFragment::no_op
no_op(mode) ==
    [kind |-> "Anonymous", rect |-> Rect(Vec2Zero, Vec2Zero), children |-> <<>>, mode |-> mode]

\* what a layout call returns: (fragments, pending absolutely positioned
\* fragments, block size), or the panic that aborted it
Laid(fragments, abspos, block_size) ==
    [fragments |-> fragments, abspos |-> abspos, block_size |-> block_size, panic |-> ""]
Aborted(msg) == [fragments |-> <<>>, abspos |-> <<>>, block_size |-> 0, panic |-> msg]

\* what laying out one child box gives: its fragment and the pending
\* fragments it adds to the list it was handed
Child(fragment, abspos) == [fragment |-> fragment, abspos |-> abspos, panic |-> ""]
ChildAborted(msg) == [fragment |-> no_op(HorizontalTbLtr), abspos |-> <<>>, panic |-> msg]

\* AbsolutelyPositionedBox::layout: the pending fragment of a box, with a
\* static start on each axis where both offsets are auto
absolute_box_offsets(initial_static_start, start, end) ==
    IF start.tag = "Auto" /\ end.tag = "Auto"
    THEN [tag |-> "StaticStart", start |-> initial_static_start]
    ELSE [tag |-> "Offsets", start |-> start, end |-> end]

absolutely_positioned_box_layout(box, initial_start_corner, tree_rank) ==
    LET offsets == box_offsets(box.style)
    IN [absolutely_positioned_box |-> box,
        tree_rank |-> tree_rank,
        inline_start |-> absolute_box_offsets(initial_start_corner.inline,
                                              offsets.inline_start, offsets.inline_end),
        block_start |-> absolute_box_offsets(initial_start_corner.block,
                                             offsets.block_start, offsets.block_end)]

\* AbsolutelyPositionedFragment::in_positioned_containing_block: every
\* pending fragment becomes a child fragment of the positioned box
in_positioned_containing_block(nested_abspos, children) ==
    children \o [i \in 1..Len(nested_abspos) |->
                    [kind |-> "AbsolutelyPositioned", source |-> nested_abspos[i]]]

\* relative_adjustement: the offset of a relatively positioned box
relative_adjust(start, end) ==
    CASE start.tag = "Length" -> start.v
      [] end.tag = "Length" -> 0 - end.v
      [] OTHER -> 0

relative_adjustement(style, inline_size, block_size) ==
    IF ~is_relatively_positioned(style) THEN Vec2Zero
    ELSE LET offsets == box_offsets(style)
             is == lpa_percentage_relative_to(offsets.inline_start, inline_size)
             ie == lpa_percentage_relative_to(offsets.inline_end, inline_size)
             bs == lpa_percentage_relative_to(offsets.block_start, auto_is(block_size, 0))
             be == lpa_percentage_relative_to(offsets.block_end, auto_is(block_size, 0))
         IN Vec2(relative_adjust(is, ie), relative_adjust(bs, be))

\* FloatContext: root, child, advance_block_start
NoFloatContext == [tag |-> "None"]
\* advances is a ghost: the distances advance_block_start was called with
float_context_root(inline_size) ==
    [tag |-> "Some", block_start |-> 0, advances |-> <<>>]
float_context_child(float_context, inline_size, corner) ==
    [tag |-> "Some", block_start |-> 0, advances |-> <<>>]
advance_block_start(float_context, distance) ==
    [float_context EXCEPT !.block_start = @ + distance,
                          !.advances = Append(@, distance)]

\* ContainsFloats::into_list and FloatContext::root, in BlockFormattingContext::layout
root_float_context(contains_floats, inline_size) ==
    IF contains_floats = "Yes" THEN float_context_root(inline_size) ELSE NoFloatContext

\* InlineFormattingContext::layout: the pending fragments of the
\* absolutely positioned boxes among the inline-level boxes, in order
RECURSIVE inline_abspos(_, _)
inline_abspos(boxes, tree_rank) ==
    IF boxes = <<>> THEN <<>>
    ELSE LET box == Head(boxes)
             here == CASE box.kind = "OutOfFlowAbsolutelyPositionedBox" ->
                            <<absolutely_positioned_box_layout(box, Vec2Zero, tree_rank)>>
                       [] box.kind = "InlineBox" -> inline_abspos(box.children, tree_rank)
                       [] OTHER -> <<>>
         IN here \o inline_abspos(Tail(boxes), tree_rank)

RECURSIVE has_text(_)
has_text(boxes) ==
    \E i \in 1..Len(boxes) :
        \/ boxes[i].kind = "TextRun"
        \/ boxes[i].kind = "InlineBox" /\ has_text(boxes[i].children)

\* ... and one line of one pixel if there is any text
inline_formatting_context_layout(ifc, containing_block, tree_rank) ==
    LET line == IF has_text(ifc.inline_level_boxes) THEN Px(1) ELSE 0
    IN Laid(<<[no_op(containing_block.mode) EXCEPT
                    !.rect = Rect(Vec2Zero, Vec2(containing_block.inline_size, line))]>>,
            inline_abspos(ifc.inline_level_boxes, tree_rank),
            line)

----------------------------------------------------------------------------
(* flow/mod.rs *)

\* adjust_block_axis, line 117: rect.start_corner.block += *content_block_size
BlockStartStaysPut(rect, content_block_size) == rect
move_block_start(rect, content_block_size) ==
    [rect EXCEPT !.start_corner.block = @ + content_block_size]

\* layout_block_level_children: fn adjust_block_axis
AdjustStacksFromMovedOrigin(fragment, content_block_size) ==
    LET is_box == fragment.kind = "Box"
        bpm == IF is_box
               THEN block_sum(fragment.padding) + block_sum(fragment.border)
                    + block_sum(fragment.margin)
               ELSE 0
        rect == IF is_box THEN fragment.content_rect ELSE fragment.rect
        moved == move_block_start(rect, content_block_size)
        fragment_total_block_size == bpm + moved.size.block
    IN [fragment |-> IF is_box THEN [fragment EXCEPT !.content_rect = moved]
                     ELSE [fragment EXCEPT !.rect = moved],
        content_block_size |-> moved.start_corner.block + fragment_total_block_size,
        fragment_total_block_size |-> fragment_total_block_size]
AdjustAdvancesByContentOnly(fragment, content_block_size) ==
    LET is_box == fragment.kind = "Box"
        rect == IF is_box THEN fragment.content_rect ELSE fragment.rect
        moved == move_block_start(rect, content_block_size)
    IN [fragment |-> IF is_box THEN [fragment EXCEPT !.content_rect = moved]
                     ELSE [fragment EXCEPT !.rect = moved],
        content_block_size |-> content_block_size + moved.size.block,
        fragment_total_block_size |-> moved.size.block]
adjust_block_axis(fragment, content_block_size) ==
    LET is_box == fragment.kind = "Box"
        bpm == IF is_box
               THEN block_sum(fragment.padding) + block_sum(fragment.border)
                    + block_sum(fragment.margin)
               ELSE 0
        rect == IF is_box THEN fragment.content_rect ELSE fragment.rect
        moved == move_block_start(rect, content_block_size)
        fragment_total_block_size == bpm + moved.size.block
    IN [fragment |-> IF is_box THEN [fragment EXCEPT !.content_rect = moved]
                     ELSE [fragment EXCEPT !.rect = moved],
        content_block_size |-> content_block_size + fragment_total_block_size,
        fragment_total_block_size |-> fragment_total_block_size]

\* in_flow_non_replaced, line 257: what is left for the inline margins
InlineMarginsIgnorePaddingBorder(cbis, is, pb) == cbis - is
inline_margins_of(cbis, is, pb) == cbis - is - inline_sum(pb)

\* in_flow_non_replaced, lines 263 to 266: both inline margins are auto
both_auto(inline_margins) ==
    [inline_start |-> Length(div2(inline_margins)), inline_end |-> Length(div2(inline_margins))]

\* in_flow_non_replaced, line 298: the start corner of the content rect
StartCornerOfMarginOnly(pbm, marg) == start_corner(marg)
content_start_corner(pbm, marg) == start_corner(pbm)

\* in_flow_non_replaced, lines 283 to 287: the block size before the
\* contents are laid out
PercentageHeightIsAuto(height, containing_block) ==
    IF height.tag = "Length" THEN Length(height.v) ELSE Auto
block_size_of(height, containing_block) ==
    CASE height.tag = "Length" -> Length(height.v)
      [] height.tag = "Percentage" ->
            IF containing_block.block_size.tag = "Length"
            THEN Length(mul_percentage(containing_block.block_size.v, height.v))
            ELSE Auto
      [] height.tag = "Auto" -> Auto

\* in_flow_non_replaced, lines 249 to 298: the sizes of the box, its
\* containing block for children and the start corner of its content
in_flow_sizes(containing_block, style) ==
    LET cbis == containing_block.inline_size
        pad == sides_percentages_relative_to(padding(style), cbis)
        bord == sides_percentages_relative_to(border_width(style), cbis)
        computed_margin == sides_percentages_relative_to_or_auto(margin(style), cbis)
        pb == sides_add(pad, bord)
        size == box_size(style)
        inline_size == lpa_percentage_relative_to(size.inline, cbis)
        inline_margins == inline_margins_of(cbis, inline_size.v, pb)
        resolved_margin ==
            IF inline_size.tag # "Length" THEN computed_margin
            ELSE CASE computed_margin.inline_start.tag = "Auto"
                      /\ computed_margin.inline_end.tag = "Auto" ->
                        [computed_margin EXCEPT
                            !.inline_start = both_auto(inline_margins).inline_start,
                            !.inline_end = both_auto(inline_margins).inline_end]
                   [] computed_margin.inline_start.tag = "Auto"
                      /\ computed_margin.inline_end.tag # "Auto" ->
                        [computed_margin EXCEPT !.inline_start = Length(inline_margins)]
                   [] OTHER ->
                        \* the inline-end margin is auto, or over-constrained
                        [computed_margin EXCEPT !.inline_end = Length(inline_margins)]
        marg == sides_auto_is(resolved_margin, 0)
        pbm == sides_add(pb, marg)
        used_inline_size == auto_is(inline_size, cbis - inline_sum(pbm))
        block_size == block_size_of(size.block, containing_block)
    IN [padding |-> pad, border |-> bord, margin |-> marg,
        inline_size |-> used_inline_size, block_size |-> block_size,
        containing_block_for_children |->
            [inline_size |-> used_inline_size, block_size |-> block_size,
             mode |-> writing_mode(style)],
        start_corner |-> content_start_corner(pbm, marg)]

\* in_flow_non_replaced, lines 299 to 328: the fragment of the box once its
\* contents are laid out, and the pending fragments it hands to its caller
BoxFragmentResolvesAndBubbles(style, sizes, laid) ==
    IF laid.panic # "" THEN ChildAborted(laid.panic) ELSE
    LET adjustement == relative_adjustement(style, sizes.inline_size, sizes.block_size)
        content_rect == Rect(vec2_add(sizes.start_corner, adjustement),
                             Vec2(sizes.inline_size, auto_is(sizes.block_size, laid.block_size)))
        children == IF is_relatively_positioned(style)
                    THEN in_positioned_containing_block(laid.abspos, laid.fragments)
                    ELSE laid.fragments
    IN Child(BoxFragment(style, children, content_rect,
                         sizes.padding, sizes.border, sizes.margin),
             laid.abspos)
box_fragment(style, sizes, laid) ==
    IF laid.panic # "" THEN ChildAborted(laid.panic) ELSE
    LET adjustement == relative_adjustement(style, sizes.inline_size, sizes.block_size)
        block_size == auto_is(sizes.block_size, laid.block_size)
        content_rect == Rect(vec2_add(sizes.start_corner, adjustement),
                             Vec2(sizes.inline_size, block_size))
        positioned == is_relatively_positioned(style)
        children == IF positioned
                    THEN in_positioned_containing_block(laid.abspos, laid.fragments)
                    ELSE laid.fragments
    IN Child(BoxFragment(style, children, content_rect,
                         sizes.padding, sizes.border, sizes.margin),
             IF positioned THEN <<>> ELSE laid.abspos)

\* BlockContainer::layout, lines 69 to 93: the pending fragments are
\* re-ranked and their static starts moved by the start corner of the child
\* they come from; an auto block size is the content block size.  Indexing
\* child_fragments past its end panics.
StaticStartLeftAlone(offsets, by) == offsets
patch_static_start(offsets, by) ==
    IF offsets.tag = "StaticStart" THEN [offsets EXCEPT !.start = @ + by] ELSE offsets

patch_block_container(children, containing_block, tree_rank) ==
    LET patch(abspos_fragment) ==
            LET child == children.fragments[abspos_fragment.tree_rank]
                rect == IF child.kind = "Box" THEN child.content_rect ELSE child.rect
            IN [abspos_fragment EXCEPT
                    !.tree_rank = tree_rank,
                    !.inline_start = patch_static_start(@, rect.start_corner.inline),
                    !.block_start = patch_static_start(@, rect.start_corner.block)]
    IN IF children.panic # "" THEN children
       ELSE IF \E i \in 1..Len(children.abspos) :
                    children.abspos[i].tree_rank \notin 1..Len(children.fragments)
       THEN Aborted("index out of bounds")
       ELSE Laid(children.fragments,
                 [i \in 1..Len(children.abspos) |-> patch(children.abspos[i])],
                 auto_is(containing_block.block_size, children.block_size))

\* the reduce closure of the parallel path: left.append(&mut right)
ReduceAppendsLeftToRight(left_abspos_fragments, right_abspos_fragments) ==
    right_abspos_fragments \o left_abspos_fragments
reduce_abspos(left_abspos_fragments, right_abspos_fragments) ==
    left_abspos_fragments \o right_abspos_fragments

\* the loop "for fragment in &mut child_fragments" after the parallel map
RECURSIVE stack_fragments(_, _, _)
stack_fragments(fragments, done, content_block_size) ==
    IF Len(done) = Len(fragments)
    THEN [fragments |-> done, content_block_size |-> content_block_size]
    ELSE LET adjusted == adjust_block_axis(fragments[Len(done) + 1], content_block_size)
         IN stack_fragments(fragments, Append(done, adjusted.fragment),
                            adjusted.content_block_size)

RECURSIVE block_container_layout(_, _, _, _)
RECURSIVE layout_block_level_children(_, _, _)
RECURSIVE in_flow_non_replaced(_, _, _, _, _, _)
RECURSIVE seq_child(_, _, _, _)
RECURSIVE par_child(_, _, _)
RECURSIVE seq_loop(_, _, _, _)
RECURSIVE par_in_order(_, _)

\* BlockFormattingContext::layout
block_formatting_context_layout(bfc, containing_block, tree_rank) ==
    block_container_layout(bfc.contents, containing_block, tree_rank,
        root_float_context(bfc.contains_floats, containing_block.inline_size))

\* the float context the closure of a SameFormattingContextBlock hands to
\* contents.layout: Some(&mut float_context.child(..)) in the sequential
\* loop (lines 140 to 143), None in the parallel map (line 189)
NestedContainersStartWithout(float_context, containing_block, corner) == NoFloatContext
captured_float_context(float_context, containing_block, corner) ==
    IF float_context.tag = "Some"
    THEN float_context_child(float_context, containing_block.inline_size, corner)
    ELSE NoFloatContext

\* the layout_contents closures handed to in_flow_non_replaced: kind and
\* contents say which box they lay out, float_context is the float context
\* they capture (lines 136 to 145, 157, 188 to 190, 203 to 205)
layout_contents(kind, contents, float_context, tree_rank, containing_block, corner) ==
    IF kind = "Independent"
    THEN block_formatting_context_layout(contents, containing_block, tree_rank)
    ELSE block_container_layout(contents, containing_block, tree_rank,
            captured_float_context(float_context, containing_block, corner))

\* in_flow_non_replaced from the assert_eq on (lines 294 to 328)
MixedModesLaidOutAnyway(containing_block, style, kind, contents, tree_rank, float_context, sizes) ==
    box_fragment(style, sizes,
        layout_contents(kind, contents, float_context, tree_rank,
                        sizes.containing_block_for_children, sizes.start_corner))
in_flow_contents(containing_block, style, kind, contents, tree_rank, float_context, sizes) ==
    IF containing_block.mode # sizes.containing_block_for_children.mode
    THEN ChildAborted("Mixed writing modes are not supported yet")
    ELSE box_fragment(style, sizes,
            layout_contents(kind, contents, float_context, tree_rank,
                            sizes.containing_block_for_children, sizes.start_corner))

\* fn in_flow_non_replaced
in_flow_non_replaced(containing_block, style, kind, contents, tree_rank, float_context) ==
    in_flow_contents(containing_block, style, kind, contents, tree_rank, float_context,
                     in_flow_sizes(containing_block, style))

\* the match of the sequential loop, lines 130 to 168
seq_child(containing_block, box, tree_rank, float_context) ==
    CASE box.kind \in {"SameFormattingContextBlock", "Independent"} ->
            in_flow_non_replaced(containing_block, box.style, box.kind, box.contents,
                                 tree_rank, float_context)
      [] box.kind = "OutOfFlowAbsolutelyPositionedBox" ->
            Child(no_op(containing_block.mode),
                  <<absolutely_positioned_box_layout(box, Vec2Zero, tree_rank)>>)
      [] box.kind = "OutOfFlowFloatBox" ->
            Child(no_op(containing_block.mode), <<>>)

\* the mapfold closure of the parallel path, lines 181 to 217
ParChildRanksPlaceholderLate(containing_block, box, tree_rank) ==
    CASE box.kind \in {"SameFormattingContextBlock", "Independent"} ->
            in_flow_non_replaced(containing_block, box.style, box.kind, box.contents,
                                 tree_rank, NoFloatContext)
      [] box.kind = "OutOfFlowAbsolutelyPositionedBox" ->
            Child(no_op(containing_block.mode),
                  <<absolutely_positioned_box_layout(box, Vec2Zero, tree_rank + 1)>>)
      [] box.kind = "OutOfFlowFloatBox" ->
            ChildAborted("encountered a float box in parallel layout")
par_child(containing_block, box, tree_rank) ==
    CASE box.kind \in {"SameFormattingContextBlock", "Independent"} ->
            in_flow_non_replaced(containing_block, box.style, box.kind, box.contents,
                                 tree_rank, NoFloatContext)
      [] box.kind = "OutOfFlowAbsolutelyPositionedBox" ->
            Child(no_op(containing_block.mode),
                  <<absolutely_positioned_box_layout(box, Vec2Zero, tree_rank)>>)
      [] box.kind = "OutOfFlowFloatBox" ->
            ChildAborted("encountered a float box in parallel layout")

\* the state of the sequential loop before its first iteration
seq_start(float_context) ==
    [fragments |-> <<>>, abspos |-> <<>>, content_block_size |-> 0,
     float_context |-> float_context, panic |-> ""]

\* the end of one iteration of the sequential loop, lines 169 to 171
SeqPushAdvancesToRunningTotal(st, child) ==
    LET adjusted == adjust_block_axis(child.fragment, st.content_block_size)
    IN IF child.panic # "" THEN [st EXCEPT !.panic = child.panic]
       ELSE [fragments |-> Append(st.fragments, adjusted.fragment),
             abspos |-> st.abspos \o child.abspos,
             content_block_size |-> adjusted.content_block_size,
             float_context |-> advance_block_start(st.float_context,
                                                   adjusted.content_block_size),
             panic |-> ""]
seq_push(st, child) ==
    LET adjusted == adjust_block_axis(child.fragment, st.content_block_size)
    IN IF child.panic # "" THEN [st EXCEPT !.panic = child.panic]
       ELSE [fragments |-> Append(st.fragments, adjusted.fragment),
             abspos |-> st.abspos \o child.abspos,
             content_block_size |-> adjusted.content_block_size,
             float_context |-> advance_block_start(st.float_context,
                                                   adjusted.fragment_total_block_size),
             panic |-> ""]

\* one iteration of the sequential loop, lines 129 to 172
seq_step(containing_block, st, box, tree_rank) ==
    seq_push(st, seq_child(containing_block, box, tree_rank, st.float_context))

seq_loop(containing_block, child_boxes, i, st) ==
    IF i > Len(child_boxes) \/ st.panic # "" THEN st
    ELSE seq_loop(containing_block, child_boxes, i + 1,
                  seq_step(containing_block, st, child_boxes[i], i))

\* what the sequential path returns, lines 231 to 235
seq_return(st) ==
    IF st.panic # "" THEN Aborted(st.panic)
    ELSE Laid(st.fragments, st.abspos, st.content_block_size)

\* the parallel path once every item is mapped: the lists of pending
\* fragments merged in index order, then the loop over adjust_block_axis
par_return(items) ==
    LET n == Len(items)
        merged[i \in 0..n] ==
            IF i = 0 THEN <<>> ELSE reduce_abspos(merged[i - 1], items[i].abspos)
        stacked == stack_fragments([i \in 1..n |-> items[i].fragment], <<>>, 0)
    IN IF \E i \in 1..n : items[i].panic # ""
       THEN Aborted(items[CHOOSE i \in 1..n : items[i].panic # ""
                                /\ \A j \in 1..(i - 1) : items[j].panic = ""].panic)
       ELSE Laid(stacked.fragments, merged[n], stacked.content_block_size)

par_in_order(containing_block, child_boxes) ==
    par_return([i \in 1..Len(child_boxes) |->
                    par_child(containing_block, child_boxes[i], i)])

\* fn layout_block_level_children
layout_block_level_children(containing_block, child_boxes, float_context) ==
    IF float_context.tag = "Some"
    THEN seq_return(seq_loop(containing_block, child_boxes, 1, seq_start(float_context)))
    ELSE par_in_order(containing_block, child_boxes)

\* BlockContainer::layout
block_container_layout(contents, containing_block, tree_rank, float_context) ==
    IF contents.kind = "BlockLevelBoxes"
    THEN patch_block_container(
            layout_block_level_children(containing_block, contents.boxes, float_context),
            containing_block, tree_rank)
    ELSE inline_formatting_context_layout(contents, containing_block, tree_rank)

----------------------------------------------------------------------------
(* One BlockFormattingContext::layout call as a state machine.  On the     *)
(* parallel path the sibling range is split into segments, each folded in  *)
(* order into its own list of pending fragments; adjacent finished         *)
(* segments are reduced; the fragments are collected by index.  On the     *)
(* sequential path the children are laid out one after the other.          *)

None == [kind |-> "None"]
Segment(lo, hi) == [lo |-> lo, hi |-> hi, next |-> lo, abspos_fragments |-> <<>>]
SegmentDone(seg) == seg.next > seg.hi

LayStart(bfc, containing_block, tree_rank) ==
    [phase |-> "start", bfc |-> bfc, containing_block |-> containing_block,
     tree_rank |-> tree_rank, path |-> "", segs |-> <<>>, slots |-> <<>>,
     st |-> seq_start(NoFloatContext), next |-> 0,
     children |-> None, result |-> None, run |-> 1, first |-> None,
     out_of_order |-> FALSE]

child_boxes == lay.bfc.contents.boxes

\* BlockFormattingContext::layout down to the branch of
\* layout_block_level_children on float_context
BfcLayout ==
    /\ lay.phase = "start"
    /\ LET float_context == root_float_context(lay.bfc.contains_floats,
                                               lay.containing_block.inline_size)
           n == Len(child_boxes)
       IN lay' = IF float_context.tag = "Some"
                 THEN [lay EXCEPT !.phase = "seq", !.path = "seq",
                                  !.st = seq_start(float_context), !.next = 1]
                 ELSE [lay EXCEPT !.phase = "par", !.path = "par",
                                  !.segs = IF n = 0 THEN <<>> ELSE <<Segment(1, n)>>,
                                  !.slots = [i \in 1..n |-> None]]
    /\ UNCHANGED <<buildVars, geomVars, supportVars>>

\* par_iter: a range no item of which was taken yet is split in two
ParSplit ==
    /\ lay.phase = "par"
    /\ \E k \in 1..Len(lay.segs) :
        LET seg == lay.segs[k]
        IN /\ seg.next = seg.lo
           /\ \E m \in seg.lo..(seg.hi - 1) :
                lay' = [lay EXCEPT !.segs =
                            SubSeq(@, 1, k - 1) \o <<Segment(seg.lo, m), Segment(m + 1, seg.hi)>>
                            \o SubSeq(@, k + 1, Len(@))]
    /\ UNCHANGED <<buildVars, geomVars, supportVars>>

\* the mapfold closure has run on item i of segment k: its fragment goes to
\* place i, its pending fragments to the list of the segment
FoldIntoFirstFreePlace(l, k, i, child) ==
    IF child.panic # ""
    THEN [l EXCEPT !.phase = "panic", !.result = Aborted(child.panic)]
    ELSE [l EXCEPT !.slots[CHOOSE j \in 1..Len(l.slots) :
                                /\ l.slots[j] = None
                                /\ \A h \in 1..(j - 1) : l.slots[h] # None] = child.fragment,
                   !.segs[k].abspos_fragments = @ \o child.abspos,
                   !.segs[k].next = i + 1,
                   !.out_of_order = @ \/ \E j \in 1..(i - 1) : l.slots[j] = None]
FoldPrependsPending(l, k, i, child) ==
    IF child.panic # ""
    THEN [l EXCEPT !.phase = "panic", !.result = Aborted(child.panic)]
    ELSE [l EXCEPT !.slots[i] = child.fragment,
                   !.segs[k].abspos_fragments = child.abspos \o @,
                   !.segs[k].next = i + 1,
                   !.out_of_order = @ \/ \E j \in 1..(i - 1) : l.slots[j] = None]
par_fold(l, k, i, child) ==
    IF child.panic # ""
    THEN [l EXCEPT !.phase = "panic", !.result = Aborted(child.panic)]
    ELSE [l EXCEPT !.slots[i] = child.fragment,
                   !.segs[k].abspos_fragments = @ \o child.abspos,
                   !.segs[k].next = i + 1,
                   !.out_of_order = @ \/ \E j \in 1..(i - 1) : l.slots[j] = None]

\* the mapfold closure runs on the next item of some segment
ParMapFold ==
    /\ lay.phase = "par"
    /\ \E k \in 1..Len(lay.segs) :
        /\ ~SegmentDone(lay.segs[k])
        /\ lay' = par_fold(lay, k, lay.segs[k].next,
                           par_child(lay.containing_block, child_boxes[lay.segs[k].next],
                                     lay.segs[k].next))
    /\ UNCHANGED <<buildVars, geomVars, supportVars>>

\* the reduce closure joins two adjacent finished segments
ParReduce ==
    /\ lay.phase = "par"
    /\ \E k \in 1..(Len(lay.segs) - 1) :
        LET left == lay.segs[k]
            right == lay.segs[k + 1]
        IN /\ SegmentDone(left) /\ SegmentDone(right)
           /\ lay' = [lay EXCEPT !.segs =
                        SubSeq(@, 1, k - 1)
                        \o <<[lo |-> left.lo, hi |-> right.hi, next |-> right.next,
                              abspos_fragments |-> reduce_abspos(left.abspos_fragments,
                                                                 right.abspos_fragments)]>>
                        \o SubSeq(@, k + 2, Len(@))]
    /\ UNCHANGED <<buildVars, geomVars, supportVars>>

\* the last reduce into absolutely_positioned_fragments, collect, the loop
\* over adjust_block_axis, and the rest of BlockContainer::layout
ParCollect ==
    /\ lay.phase = "par"
    /\ Len(lay.segs) <= 1
    /\ \A k \in 1..Len(lay.segs) : SegmentDone(lay.segs[k])
    /\ LET stacked == stack_fragments(lay.slots, <<>>, 0)
           merged == reduce_abspos(<<>>, IF lay.segs = <<>> THEN <<>>
                                         ELSE lay.segs[1].abspos_fragments)
           children == Laid(stacked.fragments, merged, stacked.content_block_size)
           patched == patch_block_container(children, lay.containing_block, lay.tree_rank)
       IN lay' = [lay EXCEPT !.phase = IF patched.panic = "" THEN "done" ELSE "panic",
                             !.children = children, !.result = patched]
    /\ UNCHANGED <<buildVars, geomVars, supportVars>>

seq_advance(l, st) ==
    IF st.panic # ""
    THEN [l EXCEPT !.phase = "panic", !.result = Aborted(st.panic)]
    ELSE [l EXCEPT !.st = st, !.next = @ + 1]

\* one iteration of the sequential loop
SeqStep ==
    /\ lay.phase = "seq"
    /\ lay.next <= Len(child_boxes)
    /\ lay' = seq_advance(lay, seq_step(lay.containing_block, lay.st,
                                        child_boxes[lay.next], lay.next))
    /\ UNCHANGED <<buildVars, geomVars, supportVars>>

\* the sequential loop is over: the rest of BlockContainer::layout
SeqCollect ==
    /\ lay.phase = "seq"
    /\ lay.next > Len(child_boxes)
    /\ LET children == Laid(lay.st.fragments, lay.st.abspos, lay.st.content_block_size)
           patched == patch_block_container(children, lay.containing_block, lay.tree_rank)
       IN lay' = [lay EXCEPT !.phase = IF patched.panic = "" THEN "done" ELSE "panic",
                             !.children = children, !.result = patched]
    /\ UNCHANGED <<buildVars, geomVars, supportVars>>

\* the same box tree is laid out a second time
Relayout ==
    /\ lay.phase = "done"
    /\ lay.run = 1
    /\ lay' = [LayStart(lay.bfc, lay.containing_block, lay.tree_rank) EXCEPT
                    !.run = 2, !.first = lay.result]
    /\ UNCHANGED <<buildVars, geomVars, supportVars>>

----------------------------------------------------------------------------
(* The box trees and containing blocks laid out *)

\* sibling boxes of one block container, drawn from the in-flow blocks and
\* absolutely positioned boxes
MaxChildren == 3
\* sibling boxes of one block container, drawn from every kind of box
MaxMixed == 2

Zero == Length(0)
EmptyContainer == BlockLevelBoxes(<<>>)
Block(style, boxes) == SameFormattingContextBlock(style, BlockLevelBoxes(boxes))
Tall(n) == [InitialValues EXCEPT !.height = Length(Px(n))]

AbsposBox ==
    OutOfFlowBox("OutOfFlowAbsolutelyPositionedBox",
                 [InitialValues EXCEPT !.position = "absolute"],
                 BlockFormattingContext(EmptyContainer, "No"))
\* an absolutely positioned box with left: 1px
OffsetAbsposBox ==
    OutOfFlowBox("OutOfFlowAbsolutelyPositionedBox",
                 [InitialValues EXCEPT
                    !.position = "absolute",
                    !.box_offsets = PhysicalSides(Auto, Length(Px(1)), Auto, Auto)],
                 BlockFormattingContext(EmptyContainer, "No"))
FloatBox ==
    OutOfFlowBox("OutOfFlowFloatBox", [InitialValues EXCEPT !.float = "left"],
                 BlockFormattingContext(EmptyContainer, "No"))

CorePalette ==
    { Block(Tall(1), <<>>),
      Block(Tall(2), <<>>),
      AbsposBox,
      \* absolutely positioned boxes below a block with margins and padding
      Block([InitialValues EXCEPT
                !.margin = PhysicalSides(Length(Px(1)), Length(Px(2)), Zero, Zero),
                !.padding = PhysicalSides(Zero, Length(Px(1)), Length(Px(1)), Zero)],
            <<Block(Tall(1), <<>>), AbsposBox, OffsetAbsposBox>>),
      \* a relatively positioned block is the containing block of its own
      Block([InitialValues EXCEPT
                !.position = "relative",
                !.box_offsets = PhysicalSides(Length(Px(1)), Length(Px(1)), Auto, Auto)],
            <<AbsposBox, Block(Tall(3), <<>>)>>) }

Palette ==
    CorePalette \cup
    { \* an independent formatting context with a float of its own
      [kind |-> "Independent", style |-> InitialValues,
       contents |-> BlockFormattingContext(
                        BlockLevelBoxes(<<FloatBox, Block(Tall(1), <<>>)>>), "Yes")],
      \* a float inside a block of the same formatting context
      Block([InitialValues EXCEPT
                !.padding = PhysicalSides(Length(Px(1)), Zero, Zero, Zero)],
            <<FloatBox>>),
      \* an independent formatting context without floats
      [kind |-> "Independent", style |-> InitialValues,
       contents |-> BlockFormattingContext(
                        BlockLevelBoxes(<<Block(Tall(1), <<>>)>>), "No")],
      \* an anonymous block around text and an inline-level abspos box
      SameFormattingContextBlock(AnonymousStyle,
            InlineFormattingContext(<<TextRun(<<"a">>), AbsposBox>>)),
      FloatBox }

\* single boxes with every combination of definite width, inline margins,
\* padding and border
SizingStyles ==
    { [InitialValues EXCEPT
            !.width = w, !.height = Length(Px(1)),
            !.margin = PhysicalSides(Zero, ml, Zero, mr),
            !.padding = PhysicalSides(Zero, pl, Zero, pr),
            !.border = PhysicalSides(Zero, bl, Zero, Zero),
            !.position = pos,
            !.box_offsets = PhysicalSides(Auto, IF pos = "relative" THEN Length(Px(1)) ELSE Auto,
                                          Auto, Auto)] :
        w \in {Auto, Length(Px(2)), Length(Px(4)), Percentage(50)},
        ml \in {Auto, Length(Px(1))}, mr \in {Auto, Length(Px(1))},
        pl \in {Zero, Length(Px(1))}, pr \in {Zero, Percentage(50)},
        bl \in {Zero, Length(Px(1))},
        pos \in {"static", "relative"} }

\* blocks with a percentage height, around a block with a percentage
\* height of its own or an absolutely positioned box
PercentageHeights ==
    { <<Block([InitialValues EXCEPT !.height = Percentage(50)], boxes)>> :
        boxes \in { <<Block(Tall(3), <<>>)>>,
                    <<Block([InitialValues EXCEPT !.height = Percentage(50)],
                            <<Block(Tall(3), <<>>)>>),
                      Block(Tall(1), <<>>)>>,
                    <<AbsposBox>> } }

BoxLists ==
    SeqsUpTo(CorePalette, MaxChildren) \cup SeqsUpTo(Palette, MaxMixed)
    \cup {<<Block(style, <<>>)>> : style \in SizingStyles}
    \cup PercentageHeights

ContainingBlocks ==
    { [inline_size |-> Px(8), block_size |-> Auto, mode |-> HorizontalTbLtr],
      [inline_size |-> Px(3), block_size |-> Length(Px(2)), mode |-> HorizontalTbLtr] }

\* a containing block of a writing mode no style has: ContainingBlock.mode is
\* whatever the caller of layout puts there
MixedContainingBlocks ==
    { [inline_size |-> Px(8), block_size |-> Auto,
       mode |-> [writing_mode |-> "VerticalRl", direction |-> "Ltr"]] }

\* whether a block container holds a float box in its own formatting context
RECURSIVE holds_float_box(_)
holds_float_box(boxes) ==
    \E i \in 1..Len(boxes) :
        \/ boxes[i].kind = "OutOfFlowFloatBox"
        \/ /\ boxes[i].kind = "SameFormattingContextBlock"
           /\ boxes[i].contents.kind = "BlockLevelBoxes"
           /\ holds_float_box(boxes[i].contents.boxes)

BuildIdle ==
    /\ frames = <<>>
    /\ pc = "idle"
    /\ panic_msg = ""
    /\ result = None
    /\ nodes = 0
    /\ lead = NoLead

\* BlockFormattingContext::build sets contains_floats when the container
\* holds a float box (and also for floats among inline-level boxes)
LayoutInit ==
    /\ BuildIdle
    /\ GeomIdle
    /\ SupportIdle
    /\ \E boxes \in BoxLists, flag \in {"Yes", "No"},
          cb \in ContainingBlocks \cup MixedContainingBlocks :
        /\ holds_float_box(boxes) => flag = "Yes"
        /\ cb \in MixedContainingBlocks => boxes \in SeqsUpTo(Palette, MaxMixed)
        /\ lay = LayStart(BlockFormattingContext(BlockLevelBoxes(boxes), flag), cb, 1)

LayoutNext ==
    \/ BfcLayout
    \/ ParSplit
    \/ ParMapFold
    \/ ParReduce
    \/ ParCollect
    \/ SeqStep
    \/ SeqCollect
    \/ Relayout

LayoutSpec == LayoutInit /\ [][LayoutNext]_vars

----------------------------------------------------------------------------
(* The conversions of geom.rs applied to a physical vector and to physical *)
(* sides, for every writing mode and direction                             *)

\* coordinates of the vectors converted
MaxCoord == 2

\* (WritingMode, Direction)
WritingModes ==
    { [writing_mode |-> w, direction |-> d] :
        w \in {"HorizontalTb", "VerticalRl", "VerticalLr", "SidewaysRl", "SidewaysLr"},
        d \in {"Ltr", "Rtl"} }

GeomInit ==
    /\ BuildIdle
    /\ LayoutIdle
    /\ SupportIdle
    /\ \E mode \in WritingModes, x \in 0..MaxCoord, y \in 0..MaxCoord,
          sides \in { PhysicalSides(Length(Px(1)), Length(Px(2)), Length(Px(3)), Length(Px(4))),
                      PhysicalSides(Length(0), Percentage(50), Auto, Length(Px(1))) } :
        geom = [phase |-> "geom", mode |-> mode, vec |-> [x |-> x, y |-> y],
                sides |-> sides, flow_vec |-> None, physical_vec |-> None,
                flow_sides |-> None]

\* physical::Vec2::size_to_flow_relative
SizeToFlowRelative ==
    /\ geom.phase = "geom"
    /\ geom.flow_vec = None
    /\ geom' = [geom EXCEPT !.flow_vec = size_to_flow_relative(geom.vec, geom.mode)]
    /\ UNCHANGED <<buildVars, layoutVars, supportVars>>

\* flow_relative::Vec2::size_to_physical, on the vector converted before
SizeToPhysical ==
    /\ geom.phase = "geom"
    /\ geom.flow_vec # None
    /\ geom.physical_vec = None
    /\ geom' = [geom EXCEPT !.physical_vec = size_to_physical(geom.flow_vec, geom.mode)]
    /\ UNCHANGED <<buildVars, layoutVars, supportVars>>

\* physical::Sides::to_flow_relative
SidesToFlowRelative ==
    /\ geom.phase = "geom"
    /\ geom.flow_sides = None
    /\ geom' = [geom EXCEPT !.flow_sides = to_flow_relative(geom.sides, geom.mode)]
    /\ UNCHANGED <<buildVars, layoutVars, supportVars>>

GeomNext == SizeToFlowRelative \/ SizeToPhysical \/ SidesToFlowRelative

GeomSpec == GeomInit /\ [][GeomNext]_vars

----------------------------------------------------------------------------
(* Properties of the parallel and the sequential layout *)

ParallelDone == lay.phase = "done" /\ lay.path = "par"

\* C1: for a sibling list without float box, the parallel path returns the
\* fragments in document order, and the same fragments, pending list and
\* content block size as the sequential path on the same boxes and
\* containing block, whatever order the tasks ran and were merged in.
ParallelMatchesSequential ==
    (ParallelDone /\ ~holds_float_box(child_boxes)) =>
        /\ Len(lay.children.fragments) = Len(child_boxes)
        /\ lay.children =
              layout_block_level_children(lay.containing_block, child_boxes,
                    float_context_root(lay.containing_block.inline_size))

ParallelOutOfOrderWithPending ==
    /\ ParallelDone
    /\ lay.out_of_order
    /\ Len(child_boxes) >= 3
    /\ Len(lay.children.abspos) >= 2
    /\ \E i \in 1..Len(child_boxes) : child_boxes[i].kind = "SameFormattingContextBlock"

\* C2: laying out the same box tree with the same containing block and
\* tree rank a second time gives the same fragments, pending list and block
\* size as the first time, whatever the schedule of either run.
SecondLayoutEqualsFirst ==
    (lay.phase = "done" /\ lay.run = 2) => lay.result = lay.first

SecondParallelLayoutDone ==
    /\ ParallelDone
    /\ lay.run = 2
    /\ lay.out_of_order
    /\ Len(lay.result.fragments) >= 2
    /\ lay.result.abspos # <<>>

\* C3: the layout of a box tree the builder returned never ends in the
\* panic "encountered a float box in parallel layout".
BuiltTreeNeverMeetsFloatInParallel ==
    pc = "built" =>
        \A cb \in ContainingBlocks :
            block_formatting_context_layout(
                BlockFormattingContext(result.contents, result.contains_floats),
                cb, 1).panic # "encountered a float box in parallel layout"

BuiltTreeWithNestedFloatLaidOut ==
    /\ pc = "built"
    /\ result.contents.kind = "BlockLevelBoxes"
    /\ \E i \in 1..Len(result.contents.boxes) :
        LET box == result.contents.boxes[i]
        IN /\ box.kind = "SameFormattingContextBlock"
           /\ box.contents.kind = "BlockLevelBoxes"
           /\ \E j \in 1..Len(box.contents.boxes) :
                box.contents.boxes[j].kind = "OutOfFlowFloatBox"
    /\ \A cb \in ContainingBlocks :
        block_formatting_context_layout(
            BlockFormattingContext(result.contents, result.contains_floats),
            cb, 1).panic = ""

----------------------------------------------------------------------------
(* Properties of the box tree builder *)

\* the cursor of the outermost builder yielded <span>, the text a, <div>
SawSpanTextDiv ==
    /\ frames # <<>>
    /\ Len(frames[1].seen) >= 3
    /\ frames[1].seen[1].ev = "element"
    /\ frames[1].seen[1].style.display = "inline"
    /\ frames[1].seen[2] = TextEvent(<<"a">>)
    /\ frames[1].seen[3].ev = "element"
    /\ frames[1].seen[3].style.display = "block"
    /\ ~is_absolutely_positioned(frames[1].seen[3].style)
    /\ ~is_floating(frames[1].seen[3].style)

\* C4: building <span>a<div>b</div>c</span> goes on past the <div> without a
\* panic, with the anonymous block of the first fragment of the span
\* (first_fragment, not last_fragment, holding the text a) and the block of
\* the <div> as the first two block-level boxes.
SplitSpanBuilds ==
    SawSpanTextDiv =>
        /\ pc # "panic"
        /\ Len(frames[1].block_level_boxes) >= 2
        /\ frames[1].block_level_boxes[1].kind = "SameFormattingContextBlock"
        /\ frames[1].block_level_boxes[1].contents.kind = "InlineFormattingContext"
        /\ LET boxes == frames[1].block_level_boxes[1].contents.inline_level_boxes
           IN /\ Len(boxes) = 1
              /\ boxes[1].kind = "InlineBox"
              /\ boxes[1].first_fragment /\ ~boxes[1].last_fragment
              /\ boxes[1].children = <<TextRun(<<"a">>)>>
        /\ frames[1].block_level_boxes[2].kind = "SameFormattingContextBlock"
        /\ frames[1].block_level_boxes[2].style = frames[1].seen[3].style

\* every inline box among inline-level boxes, nested ones included
RECURSIVE InlineBoxesAmong(_)
RECURSIVE InlineBoxesOfContainer(_)
InlineBoxesAmong(boxes) ==
    UNION { CASE boxes[i].kind = "InlineBox" ->
                    {boxes[i]} \cup InlineBoxesAmong(boxes[i].children)
              [] boxes[i].kind = "TextRun" -> {}
              [] OTHER -> InlineBoxesOfContainer(boxes[i].contents.contents)
            : i \in 1..Len(boxes) }
InlineBoxesOfContainer(contents) ==
    CASE contents.kind = "InlineFormattingContext" ->
            InlineBoxesAmong(contents.inline_level_boxes)
      [] contents.kind = "BlockLevelBoxes" ->
            UNION { LET box == contents.boxes[i]
                    IN CASE box.kind = "SameFormattingContextBlock" ->
                                InlineBoxesOfContainer(box.contents)
                         [] "contents" \in DOMAIN box ->
                                InlineBoxesOfContainer(box.contents.contents)
                         [] OTHER -> {}
                    : i \in 1..Len(contents.boxes) }
      [] OTHER -> {}

\* the inline boxes a builder has finished: all but those of its stack
FinishedInlineBoxes(b) ==
    InlineBoxesAmong(b.ongoing_inline_formatting_context)
    \cup UNION { InlineBoxesAmong(b.ongoing_inline_boxes_stack[i].children) :
                    i \in 1..Len(b.ongoing_inline_boxes_stack) }
    \cup InlineBoxesOfContainer(BlockLevelBoxes(b.block_level_boxes))

ProducedInlineBoxes ==
    UNION { FinishedInlineBoxes(frames[k]) : k \in 1..Len(frames) }
    \cup (IF pc = "built" THEN InlineBoxesOfContainer(result.contents) ELSE {})

RECURSIVE Collapsed(_, _)
Collapsed(text, after_space) ==
    IF text = <<>> THEN <<>>
    ELSE IF is_ascii_whitespace(Head(text))
         THEN (IF after_space THEN <<>> ELSE <<" ">>) \o Collapsed(Tail(text), TRUE)
         ELSE <<Head(text)>> \o Collapsed(Tail(text), FALSE)

\* C6: handle_text in a container without inline content before the text
\* drops the leading white space, makes one space of every run of white
\* space inside the text and one space of trailing white space; a text of
\* white space only leaves no text run.
FirstTextCollapsed ==
    (pc = "building" /\ nodes = 1 /\ lead.before = NewBuilder([kind |-> "root"])) =>
        Top.ongoing_inline_formatting_context =
            IF Collapsed(lead.text, TRUE) = <<>> THEN <<>>
            ELSE <<TextRun(Collapsed(lead.text, TRUE))>>

ExampleTextCollapsed ==
    /\ nodes = 1
    /\ lead.text = <<" ", " ", "a", " ", " ", " ", "b", " ", " ">>
    /\ Top.ongoing_inline_formatting_context = <<TextRun(<<"a", " ", "b", " ">>)>>

\* the nearest text before the current position of builder b: in the
\* children of its innermost open inline box, else in those of the
\* enclosing open boxes, else in the inline formatting context
RECURSIVE NearestTextBefore(_, _)
NearestTextBefore(b, depth) ==
    LET found == ScanBack(IF depth = 0 THEN b.ongoing_inline_formatting_context
                          ELSE b.ongoing_inline_boxes_stack[depth].children)
    IN IF found # "none" \/ depth = 0 THEN found
       ELSE NearestTextBefore(b, depth - 1)

\* C7: a text that starts with white space gets one leading space exactly
\* when there is a text before it in the inline formatting context, open
\* enclosing inline boxes included, and the nearest one does not end in a
\* space.
LeadingSpaceKeptAfterText ==
    (lead.text # <<>> /\ is_ascii_whitespace(Head(lead.text))) =>
        (lead.preserved <=>
            NearestTextBefore(lead.before, Len(lead.before.ongoing_inline_boxes_stack)) = "yes")

----------------------------------------------------------------------------
(* Properties of in_flow_non_replaced and adjust_block_axis *)

\* child i is a block with a definite inline size and both inline margins auto
AutoMarginsDefiniteSize(i) ==
    /\ child_boxes[i].kind = "SameFormattingContextBlock"
    /\ child_boxes[i].style.width.tag # "Auto"
    /\ child_boxes[i].style.margin.left.tag = "Auto"
    /\ child_boxes[i].style.margin.right.tag = "Auto"

\* C8: with a definite inline size W and both inline margins auto, in a
\* containing block of inline size C, both inline margins are half of
\* C - W - inline padding - inline border.
AutoMarginsShareTheRest ==
    lay.phase = "done" =>
        \A i \in 1..Len(child_boxes) :
            AutoMarginsDefiniteSize(i) =>
                LET fragment == lay.children.fragments[i]
                    rest == lay.containing_block.inline_size
                            - fragment.content_rect.size.inline
                            - (fragment.padding.inline_start + fragment.padding.inline_end)
                            - (fragment.border.inline_start + fragment.border.inline_end)
                IN /\ fragment.margin.inline_start = fragment.margin.inline_end
                   /\ fragment.margin.inline_start + fragment.margin.inline_end = rest

CenteredWithPaddingAndBorder ==
    /\ lay.phase = "done"
    /\ Len(child_boxes) = 1
    /\ AutoMarginsDefiniteSize(1)
    /\ lay.children.fragments[1].margin.inline_start > 0
    /\ lay.children.fragments[1].padding.inline_start > 0
    /\ lay.children.fragments[1].border.inline_start > 0

PlainBlock(box) ==
    /\ box.kind = "SameFormattingContextBlock"
    /\ ~is_relatively_positioned(box.style)
    /\ box.style.margin = PhysicalSides(Zero, Zero, Zero, Zero)
    /\ box.style.padding = PhysicalSides(Zero, Zero, Zero, Zero)
    /\ box.style.border = PhysicalSides(Zero, Zero, Zero, Zero)

RECURSIVE BlockSizesUpTo(_, _)
BlockSizesUpTo(fragments, i) ==
    IF i = 0 THEN 0
    ELSE fragments[i].content_rect.size.block + BlockSizesUpTo(fragments, i - 1)

StackedAtPrefixSums(laid) ==
    /\ laid.panic = ""
    /\ \A i \in 1..Len(laid.fragments) :
        laid.fragments[i].content_rect.start_corner.block =
            BlockSizesUpTo(laid.fragments, i - 1)
    /\ laid.block_size = BlockSizesUpTo(laid.fragments, Len(laid.fragments))

----------------------------------------------------------------------------
(* Properties of the pending absolutely positioned fragments *)

\* the float context the layout_contents closures of the path taken capture
PathFloatContext ==
    IF lay.path = "seq" THEN float_context_root(lay.containing_block.inline_size)
    ELSE NoFloatContext

\* what the contents of in-flow child i return when laid out
ContentsLaid(i) ==
    layout_contents(child_boxes[i].kind, child_boxes[i].contents, PathFloatContext, i,
        in_flow_sizes(lay.containing_block, child_boxes[i].style).containing_block_for_children,
        in_flow_sizes(lay.containing_block, child_boxes[i].style).start_corner)

InFlowChild(i) == child_boxes[i].kind \in {"SameFormattingContextBlock", "Independent"}

\* the pending fragments of list that carry tree rank i
WithTreeRank(list, i) ==
    LET HasRank(f) == f.tree_rank = i IN SelectSeq(list, HasRank)

\* the pending fragments resolved into the children of a box fragment
ResolvedIn(fragment) ==
    LET IsResolved(f) == f.kind = "AbsolutelyPositioned"
        resolved == SelectSeq(fragment.children, IsResolved)
    IN [k \in 1..Len(resolved) |-> resolved[k].source]

ConsumedOnce(style, fragment, bubbled, nested_abspos) ==
    IF is_relatively_positioned(style)
    THEN ResolvedIn(fragment) = nested_abspos /\ bubbled = <<>>
    ELSE ResolvedIn(fragment) = <<>> /\ bubbled = nested_abspos

\* C11: the pending fragments the contents of an in-flow box return are all
\* resolved in the fragment of the box, once each, and none reaches the list
\* of the caller, if the box is relatively positioned; otherwise they all
\* reach the list of the caller, once each and in order, and none is
\* resolved.
PendingConsumedExactlyOnce ==
    lay.phase = "done" =>
        \A i \in 1..Len(child_boxes) :
            InFlowChild(i) =>
                ConsumedOnce(child_boxes[i].style, lay.children.fragments[i],
                             WithTreeRank(lay.children.abspos, i), ContentsLaid(i).abspos)

ResolvedAndBubbledSideBySide ==
    /\ lay.phase = "done"
    /\ \E i, j \in 1..Len(child_boxes) :
        /\ InFlowChild(i) /\ InFlowChild(j)
        /\ is_relatively_positioned(child_boxes[i].style)
        /\ ResolvedIn(lay.children.fragments[i]) # <<>>
        /\ ~is_relatively_positioned(child_boxes[j].style)
        /\ WithTreeRank(lay.children.abspos, j) # <<>>
        /\ ResolvedIn(lay.children.fragments[j]) = <<>>

----------------------------------------------------------------------------
(* Properties of the float flag of the builder *)

\* a float box among inline-level boxes, inside their inline boxes included
RECURSIVE FloatAmongInlines(_)
FloatAmongInlines(boxes) ==
    \E i \in 1..Len(boxes) :
        \/ boxes[i].kind = "OutOfFlowFloatBox"
        \/ boxes[i].kind = "InlineBox" /\ FloatAmongInlines(boxes[i].children)

\* a float box in the formatting context the container belongs to: among
\* its own boxes or in a same-formatting-context block at any depth
RECURSIVE FloatInOwnContext(_)
FloatInOwnContext(contents) ==
    IF contents.kind = "InlineFormattingContext"
    THEN FloatAmongInlines(contents.inline_level_boxes)
    ELSE \E i \in 1..Len(contents.boxes) :
            \/ contents.boxes[i].kind = "OutOfFlowFloatBox"
            \/ /\ contents.boxes[i].kind = "SameFormattingContextBlock"
               /\ FloatInOwnContext(contents.boxes[i].contents)

\* C12: build returns contains_floats = Yes exactly when a float box is
\* among the block-level or inline-level boxes of the container or in a
\* nested same-formatting-context block at any depth; the floats inside an
\* absolutely positioned box or another float do not count.
FlagIffFloatInOwnContext ==
    /\ \A k \in 1..Len(frames) :
            frames[k].phase = "done" =>
                (frames[k].out.contains_floats = "Yes"
                    <=> FloatInOwnContext(frames[k].out.contents))
    /\ pc = "built" =>
            (result.contains_floats = "Yes" <=> FloatInOwnContext(result.contents))

FloatInsideAbsposLeavesFlag ==
    /\ pc = "built"
    /\ result.contains_floats = "No"
    /\ result.contents.kind = "BlockLevelBoxes"
    /\ \E i \in 1..Len(result.contents.boxes) :
        /\ result.contents.boxes[i].kind = "OutOfFlowAbsolutelyPositionedBox"
        /\ result.contents.boxes[i].contents.contains_floats = "Yes"
        /\ FloatInOwnContext(result.contents.boxes[i].contents.contents)

\* a build call whose parallel finish is over
FinishDone(k) ==
    /\ frames[k].phase = "done"
    /\ frames[k].intermediate # <<>>

\* ContainsFloats |= is associative, commutative and idempotent, and No is
\* its identity
BitOrIsOrderIndependent ==
    \A x, y, z \in {"No", "Yes"} :
        /\ bitor_assign(bitor_assign(x, y), z) = bitor_assign(x, bitor_assign(y, z))
        /\ bitor_assign(x, y) = bitor_assign(y, x)
        /\ bitor_assign(x, x) = x
        /\ bitor_assign(x, "No") = x /\ bitor_assign("No", x) = x

----------------------------------------------------------------------------
(* Properties of the unsupported configurations *)

\* in-flow child i has a style of another writing mode than the containing block
MixedChild(i) ==
    /\ InFlowChild(i)
    /\ writing_mode(child_boxes[i].style) # lay.containing_block.mode

\* C14: a child whose writing mode differs from that of the containing
\* block never gets a fragment: the layout call does not complete, no
\* fragment is stored for the child on either path, and the layout ends in
\* the panic "Mixed writing modes are not supported yet" without a result.
MixedModesAbortWithoutFragment ==
    \A i \in 1..Len(child_boxes) :
        MixedChild(i) =>
            /\ lay.phase # "done"
            /\ lay.path = "par" => lay.slots[i] = None
            /\ lay.path = "seq" => Len(lay.st.fragments) < i
            /\ lay.phase = "panic" =>
                    lay.result = Aborted("Mixed writing modes are not supported yet")
            /\ in_flow_non_replaced(lay.containing_block, child_boxes[i].style,
                    child_boxes[i].kind, child_boxes[i].contents, i, PathFloatContext)
                = ChildAborted("Mixed writing modes are not supported yet")

MixedModeChildAborted ==
    /\ lay.phase = "panic"
    /\ lay.path = "par"
    /\ lay.result.panic = "Mixed writing modes are not supported yet"
    /\ Len(child_boxes) = 2
    /\ MixedChild(2)
    /\ child_boxes[2].kind = "SameFormattingContextBlock"
    /\ child_boxes[2].contents.kind = "BlockLevelBoxes"
    /\ child_boxes[2].contents.boxes # <<>>
    /\ lay.slots[1] # None
    /\ lay.slots[2] = None

----------------------------------------------------------------------------
(* Properties of the conversions of geom.rs *)

\* C15: in every writing mode and direction, size_to_physical undoes
\* size_to_flow_relative, and to_flow_relative gives each of the four
\* physical sides to exactly one flow-relative side; in horizontal-tb ltr
\* inline is x, from left to right, and block is y, from top to bottom.
ConversionsInvertible ==
    geom.phase = "geom" =>
        /\ geom.physical_vec # None => geom.physical_vec = geom.vec
        /\ geom.flow_sides # None =>
                \A side \in {"top", "left", "bottom", "right"} :
                    Cardinality({ name \in DOMAIN geom.flow_sides :
                                    geom.flow_sides[name] = geom.sides[side] }) = 1
        /\ geom.mode = HorizontalTbLtr =>
                /\ geom.flow_vec # None => geom.flow_vec = Vec2(geom.vec.x, geom.vec.y)
                /\ geom.flow_sides # None =>
                        geom.flow_sides = FlowRelativeSides(geom.sides.left, geom.sides.right,
                                                            geom.sides.top, geom.sides.bottom)

VerticalRoundTrip ==
    /\ geom.phase = "geom"
    /\ geom.mode.writing_mode = "VerticalRl"
    /\ geom.mode.direction = "Rtl"
    /\ geom.vec.x # geom.vec.y
    /\ geom.flow_vec # None
    /\ geom.flow_vec.inline = geom.vec.y
    /\ geom.physical_vec = geom.vec
    /\ geom.flow_sides # None
    /\ geom.flow_sides.block_start = geom.sides.right
    /\ geom.flow_sides.inline_start = geom.sides.bottom

----------------------------------------------------------------------------
(* Properties of the fragments and pending fragments of a sibling list *)

\* an anonymous fragment without size and children
Placeholder(fragment) ==
    /\ fragment.kind = "Anonymous"
    /\ fragment.rect.size = Vec2Zero
    /\ fragment.children = <<>>

\* C16: layout_block_level_children returns one fragment per box, the
\* fragment at index i made from box i; an absolutely positioned box at
\* index i gives a placeholder there and exactly one pending fragment of
\* tree rank i, which is that box; every tree rank of the pending list is an
\* index of the fragment list, and the lookup of BlockContainer::layout
\* never runs past its end, at any depth.
OneFragmentPerBox ==
    /\ lay.phase = "panic" => lay.result.panic # "index out of bounds"
    /\ lay.phase = "done" =>
        /\ Len(lay.children.fragments) = Len(child_boxes)
        /\ \A i \in 1..Len(child_boxes) :
            LET fragment == lay.children.fragments[i]
                pending == WithTreeRank(lay.children.abspos, i)
            IN CASE InFlowChild(i) ->
                        fragment.kind = "Box" /\ fragment.style = child_boxes[i].style
                 [] child_boxes[i].kind = "OutOfFlowAbsolutelyPositionedBox" ->
                        /\ Placeholder(fragment)
                        /\ Len(pending) = 1
                        /\ pending[1].absolutely_positioned_box = child_boxes[i]
                 [] OTHER -> Placeholder(fragment) /\ pending = <<>>
        /\ \A k \in 1..Len(lay.children.abspos) :
            lay.children.abspos[k].tree_rank \in 1..Len(lay.children.fragments)

PlaceholderLastAmongThree ==
    /\ lay.phase = "done"
    /\ Len(child_boxes) = 3
    /\ child_boxes[3].kind = "OutOfFlowAbsolutelyPositionedBox"
    /\ InFlowChild(1)
    /\ Len(lay.children.abspos) >= 2
    /\ lay.children.abspos[Len(lay.children.abspos)].tree_rank = 3
    /\ lay.children.fragments[3].kind = "Anonymous"

\* a pending fragment returned by BlockContainer::layout has the tree rank
\* the call was given, and each static start is the one
\* layout_block_level_children returned plus the start corner of the child
\* fragment at the tree rank it had; other offsets are as they were
PatchedOnce ==
    /\ Len(lay.result.abspos) = Len(lay.children.abspos)
    /\ \A k \in 1..Len(lay.result.abspos) :
        LET before == lay.children.abspos[k]
            after == lay.result.abspos[k]
            child == lay.children.fragments[before.tree_rank]
            corner == IF child.kind = "Box" THEN child.content_rect.start_corner
                      ELSE child.rect.start_corner
        IN /\ after.tree_rank = lay.tree_rank
           /\ after.absolutely_positioned_box = before.absolutely_positioned_box
           /\ after.inline_start =
                IF before.inline_start.tag = "StaticStart"
                THEN [tag |-> "StaticStart", start |-> before.inline_start.start + corner.inline]
                ELSE before.inline_start
           /\ after.block_start =
                IF before.block_start.tag = "StaticStart"
                THEN [tag |-> "StaticStart", start |-> before.block_start.start + corner.block]
                ELSE before.block_start

\* child i is a block that is not positioned and holds block-level boxes
StaticAncestor(i) ==
    /\ child_boxes[i].kind = "SameFormattingContextBlock"
    /\ ~is_relatively_positioned(child_boxes[i].style)
    /\ child_boxes[i].contents.kind = "BlockLevelBoxes"

\* what layout_block_level_children returns for the boxes of child i
InnerChildren(i) ==
    layout_block_level_children(
        in_flow_sizes(lay.containing_block, child_boxes[i].style).containing_block_for_children,
        child_boxes[i].contents.boxes, PathFloatContext)

\* the places of the returned pending list that come from child i
PlacesOf(i) ==
    LET FromChild(k) == lay.children.abspos[k].tree_rank = i
    IN SelectSeq([k \in 1..Len(lay.children.abspos) |-> k], FromChild)

\* the pending fragment at place m of inner comes from an absolutely
\* positioned box that is a direct child of child i
DirectChildOf(i, inner, m) ==
    child_boxes[i].contents.boxes[inner.abspos[m].tree_rank].kind
        = "OutOfFlowAbsolutelyPositionedBox"

\* a static start is by away from where it began, other offsets are as given
MovedBy(offsets, given, by) ==
    IF offsets.tag = "StaticStart" THEN offsets.start = by ELSE offsets = given

\* the pending fragments of the direct children of child i, after one
\* ancestor: static starts at the start corner of the fragment of child i
\* (plus the start corner of their placeholder if with_placeholder)
BubbledThroughOne(i, inner, places, with_placeholder) ==
    /\ Len(places) = Len(inner.abspos)
    /\ \A m \in 1..Len(places) :
        DirectChildOf(i, inner, m) =>
            LET after == lay.result.abspos[places[m]]
                ancestor == lay.children.fragments[i].content_rect.start_corner
                own == IF with_placeholder
                       THEN inner.fragments[inner.abspos[m].tree_rank].rect.start_corner
                       ELSE Vec2Zero
            IN /\ MovedBy(after.inline_start, inner.abspos[m].inline_start,
                          own.inline + ancestor.inline)
               /\ MovedBy(after.block_start, inner.abspos[m].block_start,
                          own.block + ancestor.block)

PendingInSiblingOrder ==
    ParallelDone =>
        /\ \A k, l \in 1..Len(lay.children.abspos) :
                k < l => lay.children.abspos[k].tree_rank <= lay.children.abspos[l].tree_rank
        /\ \A i \in 1..Len(child_boxes) :
                WithTreeRank(lay.children.abspos, i) =
                    par_child(lay.containing_block, child_boxes[i], i).abspos

PendingOfThreeTasksOutOfOrder ==
    /\ ParallelDone
    /\ lay.out_of_order
    /\ Len(child_boxes) = 3
    /\ \A i \in 1..3 : WithTreeRank(lay.children.abspos, i) # <<>>
    /\ Len(WithTreeRank(lay.children.abspos, 2)) >= 2

\* the block extents (content, padding, border and margin) of the in-flow
\* siblings among the first i fragments, added up
RECURSIVE InFlowExtentsUpTo(_, _)
InFlowExtentsUpTo(fragments, i) ==
    IF i = 0 THEN 0
    ELSE InFlowExtentsUpTo(fragments, i - 1)
         + IF InFlowChild(i)
           THEN fragments[i].content_rect.size.block
                + block_sum(fragments[i].padding) + block_sum(fragments[i].border)
                + block_sum(fragments[i].margin)
           ELSE 0

\* C19: once BlockContainer::layout has patched it, the static block start
\* of an absolutely positioned box among the siblings is the sum of the
\* block extents (content, padding, border, margin) of the in-flow siblings
\* before it, and its static inline start is 0, on the sequential path and
\* on the parallel path, where the stacking is a pass after all the tasks.
StaticStartIsInFlowPosition ==
    lay.phase = "done" =>
        /\ Len(lay.result.abspos) = Len(lay.children.abspos)
        /\ \A k \in 1..Len(lay.children.abspos) :
            LET i == lay.children.abspos[k].tree_rank
                patched == lay.result.abspos[k]
            IN child_boxes[i].kind = "OutOfFlowAbsolutelyPositionedBox" =>
                /\ patched.absolutely_positioned_box = child_boxes[i]
                /\ patched.block_start.tag = "StaticStart" =>
                        patched.block_start.start =
                            InFlowExtentsUpTo(lay.children.fragments, i - 1)
                /\ patched.inline_start.tag = "StaticStart" =>
                        patched.inline_start.start = 0

AbsposAfterMarginsOnParallelPath ==
    /\ ParallelDone
    /\ lay.out_of_order
    /\ Len(child_boxes) = 3
    /\ child_boxes[1] = Block(Tall(2), <<>>)
    /\ InFlowChild(2)
    /\ block_sum(lay.children.fragments[2].margin) > 0
    /\ block_sum(lay.children.fragments[2].padding) > 0
    /\ child_boxes[3] = AbsposBox
    /\ LET last == lay.result.abspos[Len(lay.result.abspos)]
       IN /\ last.block_start.tag = "StaticStart"
          /\ last.inline_start.tag = "StaticStart"
          /\ last.block_start.start = Px(5)

----------------------------------------------------------------------------
(* Elements without boxes *)

\* the step in which the cursor yields an element of display none to the
\* builder on top
DisplayNoneYielded ==
    /\ Traversing
    /\ Len(frames') >= Len(frames)
    /\ Len(frames'[Len(frames)].seen) = Len(Top.seen) + 1
    /\ Last(frames'[Len(frames)].seen).ev = "element"
    /\ Last(frames'[Len(frames)].seen).style.display = "none"

\* C20: an element of display none contributes nothing: the step that
\* handles it starts no builder for its contents and leaves the block-level
\* boxes, the ongoing inline formatting context, the stack of inline boxes,
\* the float flag and the cursor, which does not enter its children, as they
\* were; only the record of what the cursor yielded grows.
DisplayNoneContributesNothing ==
    [][DisplayNoneYielded =>
        /\ frames' = SetTop(Saw(Top, Last(frames'[Len(frames)].seen)))
        /\ Top'.block_level_boxes = Top.block_level_boxes
        /\ Top'.ongoing_inline_formatting_context = Top.ongoing_inline_formatting_context
        /\ Top'.ongoing_inline_boxes_stack = Top.ongoing_inline_boxes_stack
        /\ Top'.contains_floats = Top.contains_floats
        /\ Top'.cursor = Top.cursor
        /\ pc' = pc /\ result' = result]_vars

DisplayNoneAmongOngoingBoxes ==
    /\ pc = "building"
    /\ Len(frames) = 1
    /\ Len(Top.seen) = 3
    /\ Top.seen[3].ev = "element"
    /\ Top.seen[3].style.display = "none"
    /\ Top.seen[3].style.float = "left"
    /\ Top.block_level_boxes # <<>>
    /\ Top.ongoing_inline_boxes_stack # <<>>
    /\ Top.contains_floats = "Yes"
    /\ Len(Top.cursor) = 2

\* inline-level boxes without the element they come from and without the
\* contents of out-of-flow boxes, which are built by other builders
RECURSIVE EraseInline(_)
EraseInline(boxes) ==
    [i \in 1..Len(boxes) |->
        CASE boxes[i].kind = "InlineBox" ->
                [boxes[i] EXCEPT !.elem = 0, !.children = EraseInline(@)]
          [] boxes[i].kind = "TextRun" -> boxes[i]
          [] OTHER -> IntermediateOutOfFlow(boxes[i].kind, boxes[i].style)]

EraseBlock(boxes) ==
    [i \in 1..Len(boxes) |->
        IF boxes[i].kind = "SameFormattingContextBlock"
           /\ boxes[i].contents.kind = "InlineFormattingContext"
        THEN SameFormattingContextBlock(boxes[i].style,
                InlineFormattingContext(EraseInline(boxes[i].contents.inline_level_boxes)))
        ELSE boxes[i]]

\* what a builder has gathered
Gathered(b) ==
    [block_level_boxes |-> EraseBlock(b.block_level_boxes),
     ongoing_inline_formatting_context |-> EraseInline(b.ongoing_inline_formatting_context),
     ongoing_inline_boxes_stack |-> EraseInline(b.ongoing_inline_boxes_stack),
     contains_floats |-> b.contains_floats]

\* what the traversal of a builder ended with
Outcome(b) ==
    [intermediate |-> EraseBlock(b.intermediate),
     inline |-> IF b.intermediate = <<>> /\ b.phase = "done"
                THEN IF b.out.contents.kind = "InlineFormattingContext"
                     THEN <<TRUE, EraseInline(b.out.contents.inline_level_boxes)>>
                     ELSE <<FALSE, <<>>>>
                ELSE <<>>]

\* the nodes of the tree in which every element of display contents is
\* replaced by its children: the list of what the cursor yielded without
\* those elements and without the ends of their lists of children
RECURSIVE Spliced(_, _, _)
Spliced(events, k, levels) ==
    IF k > Len(events) THEN <<>>
    ELSE LET e == events[k]
         IN CASE e.ev = "element" /\ e.style.display = "contents" ->
                    Spliced(events, k + 1, Append(levels, TRUE))
              [] e.ev = "element" /\ e.style.display = "inline" ->
                    <<e>> \o Spliced(events, k + 1, Append(levels, FALSE))
              [] e.ev = "end" /\ levels # <<>> ->
                    (IF Last(levels) THEN <<>> ELSE <<e>>)
                    \o Spliced(events, k + 1, Front(levels))
              [] OTHER -> <<e>> \o Spliced(events, k + 1, levels)

\* an out-of-flow element handled without building its contents
out_of_flow_without_contents(b, kind, style) ==
    IF ~has_ongoing_inline_formatting_context(b)
    THEN handle_out_of_flow_element(b, kind, style)[1]
    ELSE set_current_inline_level_boxes(b,
            Append(current_inline_level_boxes(b), IntermediateOutOfFlow(kind, style)))

\* the builder after the handlers of build ran over a list of nodes that
\* holds no element of display contents
RECURSIVE Replay(_, _, _)
Replay(events, k, b) ==
    IF k > Len(events) THEN b
    ELSE LET e == events[k]
             after ==
                CASE e.ev = "text" -> handle_text(b, e.text)
                  [] e.ev = "end" ->
                        IF b.ongoing_inline_boxes_stack = <<>> THEN b
                        ELSE end_ongoing_inline_box(b)
                  [] e.ev = "element" /\ e.style.display = "inline" ->
                        handle_inline_level_element(b, e.style, 0)
                  [] e.ev = "element" /\ e.style.display = "block"
                     /\ is_absolutely_positioned(e.style) ->
                        out_of_flow_without_contents(b,
                            "OutOfFlowAbsolutelyPositionedBox", e.style)
                  [] e.ev = "element" /\ e.style.display = "block"
                     /\ ~is_absolutely_positioned(e.style) /\ is_floating(e.style) ->
                        out_of_flow_without_contents(mark_contains_floats(b),
                            "OutOfFlowFloatBox", e.style)
                  [] e.ev = "element" /\ e.style.display = "block"
                     /\ ~is_absolutely_positioned(e.style) /\ ~is_floating(e.style) ->
                        push_block_level_element(split_ongoing_inline_boxes(b), e.style)
                  [] OTHER -> b
         IN Replay(events, k + 1, after)

BuiltWithoutContentsElements(b) ==
    Replay(Spliced(b.seen, 1, <<>>), 1, NewBuilder(b.ret))

\* where the list of children of the element yielded at p ends, 0 if the
\* cursor is still in it
RECURSIVE EndOfChildren(_, _, _)
EndOfChildren(events, k, depth) ==
    IF k > Len(events) THEN 0
    ELSE LET e == events[k]
         IN CASE e.ev = "element" /\ e.style.display \in {"contents", "inline"} ->
                    EndOfChildren(events, k + 1, depth + 1)
              [] e.ev = "end" ->
                    IF depth = 1 THEN k ELSE EndOfChildren(events, k + 1, depth - 1)
              [] OTHER -> EndOfChildren(events, k + 1, depth)

StackDepthAfter(b, n) ==
    Len(Replay(Spliced(SubSeq(b.seen, 1, n), 1, <<>>), 1,
               NewBuilder(b.ret)).ongoing_inline_boxes_stack)

\* C21: what a builder gathers from a tree with elements of display
\* contents is what it gathers from the tree in which each of them is
\* replaced by its children in place: the element gives no box, its
\* children are handled as siblings where it stands, and the stack of inline
\* boxes is as deep after its children as before them.
ContentsElementIsSpliced ==
    (pc = "building" /\ frames # <<>>) =>
        /\ Top.phase = "traverse" =>
                Gathered(Top) = Gathered(BuiltWithoutContentsElements(Top))
        /\ Top.phase # "traverse" =>
                Outcome(Top) = Outcome(end_of_traversal(BuiltWithoutContentsElements(Top)))
        /\ \A p \in 1..Len(Top.seen) :
                (/\ Top.seen[p].ev = "element"
                 /\ Top.seen[p].style.display = "contents"
                 /\ EndOfChildren(Top.seen, p + 1, 1) # 0) =>
                    /\ StackDepthAfter(Top, EndOfChildren(Top.seen, p + 1, 1))
                            = StackDepthAfter(Top, p - 1)
                    /\ EndOfChildren(Top.seen, p + 1, 1) = Len(Top.seen) =>
                            Len(Top.ongoing_inline_boxes_stack) = StackDepthAfter(Top, p - 1)

ContentsChildrenSplicedIntoSpan ==
    /\ Traversing
    /\ Len(frames) = 1
    /\ Len(Top.seen) = 4
    /\ Top.seen[1].ev = "element" /\ Top.seen[1].style.display = "inline"
    /\ Top.seen[2].ev = "element" /\ Top.seen[2].style.display = "contents"
    /\ Top.seen[3] = TextEvent(<<"a">>)
    /\ Top.seen[4].ev = "end"
    /\ Top.cursor = <<FALSE, FALSE>>
    /\ Len(Top.ongoing_inline_boxes_stack) = 1
    /\ Top.ongoing_inline_boxes_stack[1].children = <<TextRun(<<"a">>)>>
    /\ Top.ongoing_inline_formatting_context = <<>>

----------------------------------------------------------------------------
(* The shape of what build returns *)

\* a node that is inline content wherever it stands: text with a character
\* that is not white space, or an inline-level element
InlineContent(e) ==
    \/ e.ev = "text" /\ position(e.text, FALSE) # 0
    \/ e.ev = "element" /\ e.style.display = "inline"

\* the children of a block container in document order, from the nodes the
\* cursor yielded: an item for each run of inline content and for each
\* block-level box; an out-of-flow element is block-level when no inline
\* content is open where it stands
RECURSIVE ItemsOf(_, _, _, _)
ItemsOf(events, k, items, open) ==
    IF k > Len(events) THEN items
    ELSE LET e == events[k]
             block == e.ev = "element" /\ e.style.display = "block"
             out_of_flow == block /\ (is_absolutely_positioned(e.style) \/ is_floating(e.style))
         IN CASE InlineContent(e) /\ ~open ->
                    ItemsOf(events, k + 1, Append(items, [run |-> TRUE]), TRUE)
              [] block /\ ~out_of_flow ->
                    ItemsOf(events, k + 1,
                        Append(items, [run |-> FALSE, kind |-> "SameFormattingContextBlock",
                                       style |-> e.style]), FALSE)
              [] out_of_flow /\ ~open ->
                    ItemsOf(events, k + 1,
                        Append(items, [run |-> FALSE,
                                       kind |-> IF is_absolutely_positioned(e.style)
                                                THEN "OutOfFlowAbsolutelyPositionedBox"
                                                ELSE "OutOfFlowFloatBox",
                                       style |-> e.style]), FALSE)
              [] OTHER -> ItemsOf(events, k + 1, items, open)

\* an anonymous block around a run of inline content
AnonymousRun(box) ==
    /\ box.kind = "SameFormattingContextBlock"
    /\ box.style = AnonymousStyle
    /\ box.contents.kind = "InlineFormattingContext"
    /\ box.contents.inline_level_boxes # <<>>

ShapeOfBuild(b) ==
    LET items == ItemsOf(b.seen, 1, <<>>, FALSE)
        contents == b.out.contents
    IN CASE items = <<>> -> contents = BlockLevelBoxes(<<>>)
         [] items = <<[run |-> TRUE]>> ->
                /\ contents.kind = "InlineFormattingContext"
                /\ contents.inline_level_boxes # <<>>
         [] OTHER ->
                /\ contents.kind = "BlockLevelBoxes"
                /\ Len(contents.boxes) = Len(items)
                /\ Len(b.intermediate) = Len(items)
                /\ \A i \in 1..Len(items) :
                    IF items[i].run
                    THEN /\ AnonymousRun(b.intermediate[i])
                         /\ contents.boxes[i] = b.intermediate[i]
                    ELSE /\ b.intermediate[i].kind = items[i].kind
                         /\ b.intermediate[i].style = items[i].style
                         /\ ~AnonymousRun(b.intermediate[i])
                         /\ contents.boxes[i].kind = items[i].kind
                         /\ contents.boxes[i].style = items[i].style

\* C22: what build returns has one of three shapes: the inline formatting
\* context itself when there is inline content and no block-level box; the
\* block-level boxes in document order, each run of inline content between
\* or after them in one anonymous block, when there is a block-level box;
\* no boxes at all when nothing in the container is content.
BuildReturnsOneOfThreeShapes ==
    \A n \in 1..Len(frames) :
        (pc = "building" /\ frames[n].phase = "done") => ShapeOfBuild(frames[n])

RunsAroundBlockWrapped ==
    /\ pc = "building"
    /\ Len(frames) = 1
    /\ Top.phase = "done"
    /\ Top.out.contents.kind = "BlockLevelBoxes"
    /\ Len(Top.out.contents.boxes) = 3
    /\ AnonymousRun(Top.out.contents.boxes[1])
    /\ Top.intermediate[2] = SameFormattingContextBlock(InitialValues, Deferred)
    /\ AnonymousRun(Top.out.contents.boxes[3])
    /\ Top.out.contents.boxes[1] # Top.out.contents.boxes[3]

\* no inline formatting context among block-level boxes is empty
NoneEmptyAmong(boxes) ==
    \A i \in 1..Len(boxes) :
        (boxes[i].kind = "SameFormattingContextBlock"
         /\ boxes[i].contents.kind = "InlineFormattingContext") =>
            boxes[i].contents.inline_level_boxes # <<>>

NoEmptyInlineFormattingContextStored ==
    /\ \A n \in 1..Len(frames) :
        /\ NoneEmptyAmong(frames[n].block_level_boxes)
        /\ NoneEmptyAmong(frames[n].intermediate)
        /\ (frames[n].phase = "done" /\ frames[n].out.contents.kind = "BlockLevelBoxes") =>
                NoneEmptyAmong(frames[n].out.contents.boxes)
    /\ (pc = "built" /\ result.contents.kind = "BlockLevelBoxes") =>
            NoneEmptyAmong(result.contents.boxes)

\* builder n got a new anonymous block in this step
PushedInlineFormattingContext(n) ==
    /\ n <= Len(frames')
    /\ Len(frames'[n].block_level_boxes) > Len(frames[n].block_level_boxes)
    /\ frames[n].phase = "traverse"
    /\ LET pushed == frames'[n].block_level_boxes[Len(frames[n].block_level_boxes) + 1]
       IN pushed.kind = "SameFormattingContextBlock"
          /\ pushed.contents.kind = "InlineFormattingContext"

\* C23: in every state of a builder and in what it returns, an inline
\* formatting context stored among the block-level boxes holds at least
\* one inline-level box; and when end_ongoing_inline_formatting_context
\* pushes one, it is the ongoing one, which is empty afterwards.
StoredInlineFormattingContextsNeverEmpty ==
    [][/\ NoEmptyInlineFormattingContextStored'
       /\ \A n \in 1..Len(frames) :
            PushedInlineFormattingContext(n) =>
                /\ frames'[n].ongoing_inline_formatting_context = <<>>
                /\ frames[n].ongoing_inline_formatting_context # <<>>
                /\ frames'[n].block_level_boxes[Len(frames[n].block_level_boxes) + 1]
                        .contents.inline_level_boxes
                    = frames[n].ongoing_inline_formatting_context]_vars

RunPushedBeforeBlock ==
    /\ Traversing
    /\ Len(Top.block_level_boxes) = 2
    /\ AnonymousRun(Top.block_level_boxes[1])
    /\ Top.block_level_boxes[2].contents = Deferred
    /\ Top.ongoing_inline_formatting_context = <<>>
    /\ Last(Top.seen).ev = "element"
    /\ Last(Top.seen).style.display = "block"

----------------------------------------------------------------------------
(* Out-of-flow elements *)

OutOfFlowKindOf(style) ==
    IF is_absolutely_positioned(style) THEN "OutOfFlowAbsolutelyPositionedBox"
    ELSE "OutOfFlowFloatBox"

OutOfFlowElement(e) ==
    /\ e.ev = "element"
    /\ e.style.display = "block"
    /\ is_absolutely_positioned(e.style) \/ is_floating(e.style)

\* the step in which the cursor yields an absolutely positioned or floating
\* element to the builder on top
OutOfFlowYielded ==
    /\ Traversing
    /\ Len(frames') >= Len(frames)
    /\ Len(frames'[Len(frames)].seen) = Len(Top.seen) + 1
    /\ OutOfFlowElement(Last(frames'[Len(frames)].seen))

\* the step in which the builder of the contents of an inline-level
\* out-of-flow box returns to the builder that met the element
InlineOutOfFlowBuilt ==
    /\ pc = "building" /\ Len(frames) >= 2
    /\ Len(frames') = Len(frames) - 1
    /\ Top.ret.kind = "inline"

\* C24: an absolutely positioned or floating element becomes a block-level
\* out-of-flow box of the container exactly when the ongoing inline
\* formatting context and the stack of inline boxes are both empty where it
\* is met; otherwise the block-level boxes stay as they are and it becomes
\* an inline-level out-of-flow box, the last child of the innermost open
\* inline box, or the last box of the ongoing inline formatting context
\* when no inline box is open.
OutOfFlowBlockLevelIffNoInlineOpen ==
    [][/\ OutOfFlowYielded =>
            LET n == Len(frames)
                style == Last(frames'[n].seen).style
            IN IF Top.ongoing_inline_formatting_context = <<>>
                  /\ Top.ongoing_inline_boxes_stack = <<>>
               THEN /\ Len(frames') = n
                    /\ frames'[n].block_level_boxes =
                            Append(Top.block_level_boxes,
                                   [kind |-> OutOfFlowKindOf(style), style |-> style])
                    /\ frames'[n].ongoing_inline_formatting_context = <<>>
                    /\ frames'[n].ongoing_inline_boxes_stack = <<>>
               ELSE /\ Len(frames') = n + 1
                    /\ frames'[n + 1].ret.kind = "inline"
                    /\ frames'[n].block_level_boxes = Top.block_level_boxes
                    /\ frames'[n].ongoing_inline_formatting_context
                            = Top.ongoing_inline_formatting_context
                    /\ frames'[n].ongoing_inline_boxes_stack = Top.ongoing_inline_boxes_stack
       /\ InlineOutOfFlowBuilt =>
            LET caller == frames[Len(frames) - 1]
                after == frames'[Len(frames) - 1]
                style == Last(caller.seen).style
                box == [kind |-> OutOfFlowKindOf(style), style |-> style,
                        contents |-> [contents |-> Top.out.contents,
                                      contains_floats |-> Top.out.contains_floats]]
                depth == Len(caller.ongoing_inline_boxes_stack)
            IN /\ OutOfFlowElement(Last(caller.seen))
               /\ after.block_level_boxes = caller.block_level_boxes
               /\ IF depth > 0
                  THEN /\ after.ongoing_inline_boxes_stack =
                            [caller.ongoing_inline_boxes_stack EXCEPT
                                ![depth].children = Append(@, box)]
                       /\ after.ongoing_inline_formatting_context
                            = caller.ongoing_inline_formatting_context
                  ELSE /\ after.ongoing_inline_boxes_stack = <<>>
                       /\ after.ongoing_inline_formatting_context =
                            Append(caller.ongoing_inline_formatting_context, box)]_vars

FloatInsideSpanAfterBlockLevelAbspos ==
    /\ Traversing
    /\ Len(frames) = 1
    /\ Len(Top.block_level_boxes) = 1
    /\ Top.block_level_boxes[1].kind = "OutOfFlowAbsolutelyPositionedBox"
    /\ Len(Top.ongoing_inline_boxes_stack) = 1
    /\ Top.ongoing_inline_formatting_context = <<>>
    /\ Len(Top.ongoing_inline_boxes_stack[1].children) = 1
    /\ Top.ongoing_inline_boxes_stack[1].children[1].kind = "OutOfFlowFloatBox"
    /\ Top.contains_floats = "Yes"

----------------------------------------------------------------------------
(* Float contexts *)

HoldsFloatBoxDirectly(contents) ==
    /\ contents.kind = "BlockLevelBoxes"
    /\ \E i \in 1..Len(contents.boxes) : contents.boxes[i].kind = "OutOfFlowFloatBox"

\* the float context each in-flow box below a sibling list hands to the
\* layout of its contents, followed down the tree as the closures of
\* layout_block_level_children pass it on: root is the float context of the
\* formatting context the box belongs to, parent the one its sibling list
\* is laid out with
RECURSIVE FloatContextsGiven(_, _, _, _)
FloatContextsGiven(boxes, float_context, root, containing_block) ==
    UNION {
        LET box == boxes[i]
        IN CASE box.kind = "SameFormattingContextBlock" ->
                    LET sizes == in_flow_sizes(containing_block, box.style)
                        given == captured_float_context(float_context,
                                    sizes.containing_block_for_children, sizes.start_corner)
                    IN {[kind |-> box.kind, given |-> given.tag, root |-> root,
                         parent |-> float_context.tag, flag |-> "",
                         floats |-> HoldsFloatBoxDirectly(box.contents)]}
                       \cup IF box.contents.kind = "BlockLevelBoxes"
                            THEN FloatContextsGiven(box.contents.boxes, given, root,
                                                    sizes.containing_block_for_children)
                            ELSE {}
             [] box.kind = "Independent" ->
                    LET sizes == in_flow_sizes(containing_block, box.style)
                        given == root_float_context(box.contents.contains_floats,
                                    sizes.containing_block_for_children.inline_size)
                    IN {[kind |-> box.kind, given |-> given.tag, root |-> root,
                         parent |-> float_context.tag, flag |-> box.contents.contains_floats,
                         floats |-> HoldsFloatBoxDirectly(box.contents.contents)]}
                       \cup IF box.contents.contents.kind = "BlockLevelBoxes"
                            THEN FloatContextsGiven(box.contents.contents.boxes, given,
                                    given.tag, sizes.containing_block_for_children)
                            ELSE {}
             [] OTHER -> {}
        : i \in 1..Len(boxes) }

GivenBelowRoot ==
    FloatContextsGiven(child_boxes, PathFloatContext, PathFloatContext.tag,
                       lay.containing_block)

\* C25: BlockFormattingContext::layout makes a float context exactly when
\* contains_floats, and the choice holds for the whole formatting context:
\* every SameFormattingContextBlock below hands its contents a float context
\* when the root has one and none when the root has none, while an
\* Independent box gets the context of its own flag whatever its parent
\* has.  So a layout that ends met no float box without a float context,
\* and the panic on a float box in the parallel map only comes from a
\* container without one.
FloatContextChosenOncePerFormattingContext ==
    lay.phase \notin {"idle", "start"} =>
        /\ lay.path = "seq" <=> lay.bfc.contains_floats = "Yes"
        /\ lay.path = "seq" => lay.st.float_context.tag = "Some"
        /\ \A r \in GivenBelowRoot :
            /\ r.kind = "SameFormattingContextBlock" => r.given = r.root /\ r.given = r.parent
            /\ r.kind = "Independent" =>
                    r.given = IF r.flag = "Yes" THEN "Some" ELSE "None"
        /\ lay.phase = "done" =>
            /\ lay.path = "par" => ~HoldsFloatBoxDirectly(lay.bfc.contents)
            /\ \A r \in GivenBelowRoot : r.given = "None" => ~r.floats
        /\ (lay.phase = "panic"
            /\ lay.result.panic = "encountered a float box in parallel layout") =>
                \/ lay.path = "par" /\ HoldsFloatBoxDirectly(lay.bfc.contents)
                \/ \E r \in GivenBelowRoot : r.given = "None" /\ r.floats

IndependentWithoutFloatsOnSequentialPath ==
    /\ lay.phase = "done"
    /\ lay.path = "seq"
    /\ \E r \in GivenBelowRoot :
            r.kind = "Independent" /\ r.parent = "Some" /\ r.given = "None"
    /\ \E r \in GivenBelowRoot :
            r.kind = "SameFormattingContextBlock" /\ r.given = "Some" /\ r.floats
    /\ Len(lay.children.fragments) = 2

RECURSIVE SumOf(_)
SumOf(lengths) == IF lengths = <<>> THEN 0 ELSE Head(lengths) + SumOf(Tail(lengths))

\* the block extent of a fragment among its siblings: content, padding,
\* border and margin of a box, nothing but the rect of an anonymous one
BlockExtent(fragment) ==
    IF fragment.kind = "Box"
    THEN fragment.content_rect.size.block + block_sum(fragment.padding)
         + block_sum(fragment.border) + block_sum(fragment.margin)
    ELSE fragment.rect.size.block

\* C26: between two iterations of the sequential loop advance_block_start
\* has been called once for each child laid out so far, in sibling order,
\* each time with the block extent of that child's fragment, 0 for the
\* placeholder of an out-of-flow box; the advances add up to the content
\* block size, which is the one returned when the loop is over.
AdvancesOncePerChildByItsExtent ==
    (lay.path = "seq" /\ lay.phase \in {"seq", "done"}) =>
        LET advances == lay.st.float_context.advances
        IN /\ Len(advances) = lay.next - 1
           /\ Len(advances) = Len(lay.st.fragments)
           /\ \A k \in 1..Len(advances) :
                /\ advances[k] = BlockExtent(lay.st.fragments[k])
                /\ ~InFlowChild(k) => advances[k] = 0
           /\ SumOf(advances) = lay.st.content_block_size
           /\ lay.st.float_context.block_start = SumOf(advances)
           /\ lay.phase = "done" =>
                /\ Len(advances) = Len(child_boxes)
                /\ lay.children.block_size = SumOf(advances)

AdvancedPastPlaceholder ==
    /\ lay.path = "seq"
    /\ lay.phase = "done"
    /\ Len(child_boxes) = 3
    /\ child_boxes[2].kind = "OutOfFlowAbsolutelyPositionedBox"
    /\ lay.st.float_context.advances[1] = Px(1)
    /\ lay.st.float_context.advances[2] = 0
    /\ lay.st.float_context.advances[3] > Px(2)
    /\ block_sum(lay.children.fragments[3].margin) > 0

----------------------------------------------------------------------------
(* The sizes of a box fragment *)

\* C27: for every box laid out by in_flow_non_replaced, inline-start margin
\* + inline border + inline padding + used inline size + inline-end margin
\* is the inline size of the containing block, with an auto inline size and
\* with a definite one, whichever of the inline margins are auto.
BlockWidthEquationHolds ==
    lay.phase = "done" =>
        \A i \in 1..Len(child_boxes) :
            InFlowChild(i) =>
                LET fragment == lay.children.fragments[i]
                IN fragment.margin.inline_start
                   + inline_sum(fragment.border) + inline_sum(fragment.padding)
                   + fragment.content_rect.size.inline
                   + fragment.margin.inline_end
                   = lay.containing_block.inline_size

\* the sum of the block extents of the box and anonymous fragments among
\* the children of a fragment
RECURSIVE ExtentsOf(_)
ExtentsOf(fragments) ==
    IF fragments = <<>> THEN 0
    ELSE (IF Head(fragments).kind \in {"Box", "Anonymous"}
          THEN BlockExtent(Head(fragments)) ELSE 0)
         + ExtentsOf(Tail(fragments))

\* the block size the claim gives a box of this style in this containing
\* block, content being the content block size of its contents
BlockSizeRule(style, containing_block, content) ==
    CASE style.height.tag = "Length" -> style.height.v
      [] style.height.tag = "Percentage" /\ containing_block.block_size.tag = "Length" ->
            mul_percentage(containing_block.block_size.v, style.height.v)
      [] OTHER -> content

\* the rule holds for a box fragment whose contents are block-level boxes,
\* and for the box fragments below it
RECURSIVE BlockSizesFollowRule(_, _, _)
BlockSizesFollowRule(fragment, box, containing_block) ==
    LET inner == in_flow_sizes(containing_block, box.style).containing_block_for_children
        own == [k \in 1..Len(box.contents.boxes) |-> fragment.children[k]]
    IN /\ fragment.content_rect.size.block =
            BlockSizeRule(box.style, containing_block, ExtentsOf(own))
       /\ \A k \in 1..Len(box.contents.boxes) :
            (/\ box.contents.boxes[k].kind = "SameFormattingContextBlock"
             /\ box.contents.boxes[k].contents.kind = "BlockLevelBoxes") =>
                BlockSizesFollowRule(own[k], box.contents.boxes[k], inner)

\* C28: the block size of the fragment of an in-flow box is its height when
\* that is a length, the percentage of the block size of the containing
\* block when it is a percentage and that block size is definite, and
\* otherwise (auto, or a percentage of an auto block size) the content block
\* size the layout of its contents returns, at every depth.
BlockSizeFromHeightOrContents ==
    lay.phase = "done" =>
        \A i \in 1..Len(child_boxes) :
            /\ InFlowChild(i) =>
                    lay.children.fragments[i].content_rect.size.block =
                        BlockSizeRule(child_boxes[i].style, lay.containing_block,
                                      ContentsLaid(i).block_size)
            /\ (/\ child_boxes[i].kind = "SameFormattingContextBlock"
                /\ child_boxes[i].contents.kind = "BlockLevelBoxes") =>
                    BlockSizesFollowRule(lay.children.fragments[i], child_boxes[i],
                                         lay.containing_block)

PercentageOfAutoIsContentSize ==
    /\ lay.phase = "done"
    /\ lay.containing_block.block_size = Auto
    /\ Len(child_boxes) = 1
    /\ child_boxes[1].style.height = Percentage(50)
    /\ Len(child_boxes[1].contents.boxes) = 2
    /\ child_boxes[1].contents.boxes[1].style.height = Percentage(50)
    /\ lay.children.fragments[1].children[1].content_rect.size.block = Px(3)
    /\ lay.children.fragments[1].content_rect.size.block = Px(4)

----------------------------------------------------------------------------
(* Stacking and relative positioning *)

\* the sibling boxes with every relatively positioned one made static
Unpositioned(boxes) ==
    [i \in 1..Len(boxes) |->
        IF boxes[i].kind \in {"SameFormattingContextBlock", "Independent"}
           /\ is_relatively_positioned(boxes[i].style)
        THEN [boxes[i] EXCEPT !.style.position = "static"]
        ELSE boxes[i]]

\* what relative positioning moves the content rect of box i by
RelativeOffsetOf(i) ==
    IF InFlowChild(i)
    THEN relative_adjustement(child_boxes[i].style,
            in_flow_sizes(lay.containing_block, child_boxes[i].style).inline_size,
            in_flow_sizes(lay.containing_block, child_boxes[i].style).block_size)
    ELSE Vec2Zero

RectOf(fragment) == IF fragment.kind = "Box" THEN fragment.content_rect ELSE fragment.rect

\* laid is the list with the relative positions, static the same list laid
\* out with none: the same content block size, the same sizes, and origins
\* that differ by the relative offset of the box itself
DiffersByOwnOffsetOnly(laid, static) ==
    /\ static.panic = ""
    /\ laid.block_size = static.block_size
    /\ Len(laid.fragments) = Len(static.fragments)
    /\ \A i \in 1..Len(laid.fragments) :
        /\ RectOf(laid.fragments[i]).size = RectOf(static.fragments[i]).size
        /\ BlockExtent(laid.fragments[i]) = BlockExtent(static.fragments[i])
        /\ RectOf(laid.fragments[i]).start_corner =
                vec2_add(RectOf(static.fragments[i]).start_corner, RelativeOffsetOf(i))

\* C29: the content block size layout_block_level_children returns is the
\* sum over the children of content block size, block padding, block border
\* and block margin, nothing collapsed; the placeholders of absolutely
\* positioned and float boxes add 0; and against the same list with no box
\* relatively positioned, only the origin of the content rect of a
\* relatively positioned box differs, by its own offset, not the origin of
\* any other sibling and not the content block size.
ContentBlockSizeIsSumOfExtents ==
    lay.phase = "done" =>
        /\ lay.children.block_size = ExtentsOf(lay.children.fragments)
        /\ \A i \in 1..Len(child_boxes) :
            /\ ~InFlowChild(i) => BlockExtent(lay.children.fragments[i]) = 0
            /\ InFlowChild(i) =>
                    lay.children.fragments[i].content_rect.start_corner.block =
                        InFlowExtentsUpTo(lay.children.fragments, i - 1)
                        + lay.children.fragments[i].margin.block_start
                        + lay.children.fragments[i].border.block_start
                        + lay.children.fragments[i].padding.block_start
                        + RelativeOffsetOf(i).block
        /\ DiffersByOwnOffsetOnly(lay.children,
                layout_block_level_children(lay.containing_block,
                                            Unpositioned(child_boxes), PathFloatContext))

SiblingsAfterRelativeBlockStayPut ==
    /\ lay.phase = "done"
    /\ Len(child_boxes) = 3
    /\ InFlowChild(1)
    /\ is_relatively_positioned(child_boxes[1].style)
    /\ RelativeOffsetOf(1).block > 0
    /\ child_boxes[2].kind = "OutOfFlowAbsolutelyPositionedBox"
    /\ InFlowChild(3)
    /\ block_sum(lay.children.fragments[3].margin) > 0
    /\ lay.children.fragments[3].content_rect.start_corner.block =
            BlockExtent(lay.children.fragments[1])
            + lay.children.fragments[3].margin.block_start
    /\ lay.children.block_size =
            BlockExtent(lay.children.fragments[1]) + BlockExtent(lay.children.fragments[3])

----------------------------------------------------------------------------
(* The stack of inline boxes and the cursor *)

\* the number of inline-level elements the cursor is inside of: the levels
\* it entered by traverse_children_of_this_node and has not left
RECURSIVE OpenInlineElements(_)
OpenInlineElements(cursor) ==
    IF Len(cursor) <= 1 THEN 0
    ELSE (IF Last(cursor) THEN 0 ELSE 1) + OpenInlineElements(Front(cursor))

\* the same number from what the cursor yielded: inline-level elements
\* without an end of their children yet
RECURSIVE OpenInlineAmong(_)
OpenInlineAmong(events) ==
    IF events = <<>> THEN 0
    ELSE OpenInlineAmong(Front(events))
         + CASE Last(events).ev = "element" /\ Last(events).style.display = "inline" -> 1
             [] Last(events).ev = "end" -> 0 - 1
             [] OTHER -> 0

\* C30: while a builder traverses, its stack of inline boxes is as deep as
\* the number of inline-level elements its cursor has descended into and
\* not ascended from, so move_to_parent never succeeds on an empty stack
\* (end_ongoing_inline_box does not fail) and the stack is empty when the
\* traversal is over.
StackDepthIsOpenInlineElements ==
    /\ panic_msg # "no ongoing inline level box found"
    /\ panic_msg # "ongoing_inline_boxes_stack.is_empty()"
    /\ \A n \in 1..Len(frames) :
        IF frames[n].phase = "traverse"
        THEN /\ Len(frames[n].ongoing_inline_boxes_stack)
                    = OpenInlineElements(frames[n].cursor)
             /\ Len(frames[n].ongoing_inline_boxes_stack)
                    = OpenInlineAmong(Spliced(frames[n].seen, 1, <<>>))
        ELSE /\ frames[n].ongoing_inline_boxes_stack = <<>>
             /\ OpenInlineAmong(Spliced(frames[n].seen, 1, <<>>)) = 0

AscendedFromInnerSpan ==
    /\ Traversing
    /\ Len(frames) = 1
    /\ Top.cursor = <<FALSE, FALSE>>
    /\ Len(Top.seen) = 3
    /\ Top.seen[3].ev = "end"
    /\ Len(Top.ongoing_inline_boxes_stack) = 1
    /\ Len(Top.ongoing_inline_boxes_stack[1].children) = 1
    /\ Top.ongoing_inline_boxes_stack[1].children[1].kind = "InlineBox"
    /\ Top.ongoing_inline_boxes_stack[1].children[1].last_fragment

----------------------------------------------------------------------------
(* The assertion of end_ongoing_inline_formatting_context *)

\* C31: the assertion at the top of end_ongoing_inline_formatting_context
\* never fails: no build, of any builder and for any document, stops with
\* "there should be no ongoing inline level boxes", neither at the call of
\* handle_block_level_element nor at the call at the end of build, and a
\* builder that has handled an in-flow block-level element has an empty
\* stack at the call.
OngoingStackEmptyAtEveryEnd ==
    /\ panic_msg # "there should be no ongoing inline level boxes"
    /\ \A k \in 1..Len(frames) :
        (/\ frames[k].phase = "traverse"
         /\ frames[k].seen # <<>>
         /\ frames[k].seen[Len(frames[k].seen)].ev = "element"
         /\ frames[k].seen[Len(frames[k].seen)].style.display = "block"
         /\ ~is_absolutely_positioned(frames[k].seen[Len(frames[k].seen)].style)
         /\ ~is_floating(frames[k].seen[Len(frames[k].seen)].style))
        => ongoing_stack_assertion(frames[k])

----------------------------------------------------------------------------
(* The fragments of an inline-level element *)

\* the inline boxes produced so far for the element elem
FragmentsOf(elem) == { box \in ProducedInlineBoxes : box.elem = elem }

\* C32: an inline-level element split by n in-flow block-level elements
\* gets n + 1 inline boxes: while the element is open, n finished fragments
\* (one with first_fragment, none with last_fragment) and the live box in
\* which the build goes on after the block; once it has ended, n + 1 boxes
\* of which exactly one has first_fragment and exactly one last_fragment.
FragmentsOneMoreThanSplits ==
    /\ \A k \in 1..Len(frames) :
        \A i \in 1..Len(frames[k].ongoing_inline_boxes_stack) :
            LET live == frames[k].ongoing_inline_boxes_stack[i]
                made == FragmentsOf(live.elem)
            IN /\ Cardinality(made) = live.splits_before
               /\ \A box \in made : ~box.last_fragment
               /\ live.splits_before >= 1 =>
                    /\ pc # "panic"
                    /\ ~live.first_fragment
                    /\ Cardinality({ box \in made : box.first_fragment }) = 1
    /\ \A last \in ProducedInlineBoxes :
        last.last_fragment =>
            LET made == FragmentsOf(last.elem)
            IN /\ Cardinality(made) = last.splits_before + 1
               /\ Cardinality({ box \in made : box.first_fragment }) = 1
               /\ Cardinality({ box \in made : box.last_fragment }) = 1

----------------------------------------------------------------------------
(* Text runs *)

\* no two adjacent characters of text are both spaces
NoTwoSpaces(text) ==
    \A i \in 1..(Len(text) - 1) : ~(text[i] = " " /\ text[i + 1] = " ")

\* in the list boxes, in the children of its inline boxes and in the
\* contents of its out-of-flow boxes: no text run next to a text run, no text
\* with two spaces in a row
RECURSIVE TextRunsMergedAmong(_)
RECURSIVE TextRunsMergedInContainer(_)
TextRunsMergedAmong(boxes) ==
    /\ \A i \in 1..(Len(boxes) - 1) :
        ~(boxes[i].kind = "TextRun" /\ boxes[i + 1].kind = "TextRun")
    /\ \A i \in 1..Len(boxes) :
        CASE boxes[i].kind = "TextRun" -> NoTwoSpaces(boxes[i].text)
          [] boxes[i].kind = "InlineBox" -> TextRunsMergedAmong(boxes[i].children)
          [] OTHER -> TextRunsMergedInContainer(boxes[i].contents.contents)
TextRunsMergedInContainer(contents) ==
    CASE contents.kind = "InlineFormattingContext" ->
            TextRunsMergedAmong(contents.inline_level_boxes)
      [] contents.kind = "BlockLevelBoxes" ->
            \A i \in 1..Len(contents.boxes) :
                LET box == contents.boxes[i]
                IN CASE box.kind = "SameFormattingContextBlock" ->
                            TextRunsMergedInContainer(box.contents)
                     [] "contents" \in DOMAIN box ->
                            TextRunsMergedInContainer(box.contents.contents)
                     [] OTHER -> TRUE
      [] OTHER -> TRUE

\* C33: whatever texts and elements the builders have handled, no list of
\* inline-level boxes (the ongoing inline formatting context, the children
\* of the ongoing inline boxes, the lists inside finished boxes and in the
\* returned tree) holds two adjacent text runs, and no text run holds two
\* spaces in a row.
TextRunsMergedAndCollapsed ==
    /\ \A k \in 1..Len(frames) :
        /\ TextRunsMergedAmong(frames[k].ongoing_inline_formatting_context)
        /\ TextRunsMergedAmong(frames[k].ongoing_inline_boxes_stack)
        /\ TextRunsMergedInContainer(BlockLevelBoxes(frames[k].block_level_boxes))
    /\ pc = "built" => TextRunsMergedInContainer(result.contents)

\* two text nodes in a row under one inline parent, white space at the end
\* of the first and at the start of the second: one run, one space
TwoTextNodesMergedInSpan ==
    /\ Len(frames) = 1
    /\ Len(frames[1].seen) = 3
    /\ frames[1].seen[2] = TextEvent(<<"c", " ">>)
    /\ frames[1].seen[3] = TextEvent(<<" ", "b">>)
    /\ frames[1].seen[1].ev = "element"
    /\ Len(frames[1].ongoing_inline_boxes_stack) = 1
    /\ frames[1].ongoing_inline_boxes_stack[1].children = <<TextRun(<<"c", " ", "b">>)>>

----------------------------------------------------------------------------
(* RawMutex (raw_mutex.rs): the state word, the queue of parking_lot_core  *)
(* for the address of the mutex, and threads that lock and unlock.         *)
(* Every action is one atomic operation of one thread.                     *)

\* threads using the one mutex
NumThreads == 3
Threads == 1..NumThreads

TOKEN_NORMAL == 0
TOKEN_HANDOFF == 1
LOCKED_BIT == 1
PARKED_BIT == 2

\* word & bit != 0, word | bit
Bit(word, bit) == (word \div bit) % 2 = 1
BitOr(word, bit) == IF Bit(word, bit) THEN word ELSE word + bit

\* AtomicUsize::compare_exchange on a word: Ok(previous) or Err(actual)
compare_exchange(word, current, new) ==
    IF word = current THEN [ok |-> TRUE, word |-> new, x |-> word]
    ELSE [ok |-> FALSE, word |-> word, x |-> word]

\* AtomicUsize::compare_exchange_weak, which may also fail spuriously
compare_exchange_weak(word, current, new, spurious) ==
    IF spurious THEN [ok |-> FALSE, word |-> word, x |-> word]
    ELSE compare_exchange(word, current, new)

\* lock_slow: the closure validate, run by park under the lock of the queue
ValidateWheneverLocked(word) == Bit(word, LOCKED_BIT)
validate(word) == word = LOCKED_BIT + PARKED_BIT

\* parking_lot_core::unpark_one: the UnparkResult for a queue
NoResult == [unparked_threads |-> 0, have_more_threads |-> FALSE, be_fair |-> FALSE]
unpark_result(queue, be_fair) ==
    [unparked_threads |-> IF queue = <<>> THEN 0 ELSE 1,
     have_more_threads |-> Len(queue) > 1,
     be_fair |-> be_fair /\ queue # <<>>]

\* unlock_slow: the closure callback: the token it returns and the state
\* word it leaves
CallbackHandsOffUnlocked(res, force_fair, word) ==
    IF res.unparked_threads # 0 /\ (force_fair \/ res.be_fair)
    THEN [token |-> TOKEN_HANDOFF,
          word |-> IF ~res.have_more_threads THEN 0 ELSE PARKED_BIT]
    ELSE [token |-> TOKEN_NORMAL,
          word |-> IF res.have_more_threads THEN PARKED_BIT ELSE 0]
CallbackAlwaysClearsParked(res, force_fair, word) ==
    IF res.unparked_threads # 0 /\ (force_fair \/ res.be_fair)
    THEN [token |-> TOKEN_HANDOFF, word |-> LOCKED_BIT]
    ELSE [token |-> TOKEN_NORMAL, word |-> 0]
callback(res, force_fair, word) ==
    IF res.unparked_threads # 0 /\ (force_fair \/ res.be_fair)
    THEN [token |-> TOKEN_HANDOFF,
          word |-> IF ~res.have_more_threads THEN LOCKED_BIT ELSE word]
    ELSE [token |-> TOKEN_NORMAL,
          word |-> IF res.have_more_threads THEN PARKED_BIT ELSE 0]

\* Thread t is at position at of lock() / unlock(): "idle" outside both,
\* "held" between the return of lock() and the call of unlock().
At(t, at) == mutex.phase = "run" /\ mutex.pc[t] = at

\* how: ghost, the way the holder got the mutex; returned: ghost, true in
\* the state a return of lock() leads to
Goes(t, at) == [mutex EXCEPT !.pc[t] = at, !.local[t] = 0, !.returned = FALSE]
Acquired(m, t, how) ==
    [m EXCEPT !.pc[t] = "held", !.local[t] = 0, !.how[t] = how, !.returned = TRUE]
Others == UNCHANGED <<buildVars, layoutVars, geomVars, dom, casc, pdf>>

\* fn lock: the compare_exchange_weak(0, LOCKED_BIT)
Lock(t) ==
    /\ At(t, "idle")
    /\ \E spurious \in BOOLEAN :
        LET r == compare_exchange_weak(mutex.state, 0, LOCKED_BIT, spurious)
        IN mutex' = IF r.ok THEN Acquired([mutex EXCEPT !.state = r.word], t, "fast")
                    ELSE Goes(t, "lock_slow")
    /\ Others

\* fn lock_slow: state = self.state.load(), before the loop and at its end
LockSlowLoad(t) ==
    /\ At(t, "lock_slow")
    /\ mutex' = [mutex EXCEPT !.pc[t] = "loop", !.local[t] = mutex.state,
                              !.returned = FALSE]
    /\ Others

\* lock_slow: grab the lock if it isn't locked, even if there is a queue
Grab(t) ==
    /\ At(t, "loop")
    /\ ~Bit(mutex.local[t], LOCKED_BIT)
    /\ \E spurious \in BOOLEAN :
        LET r == compare_exchange_weak(mutex.state, mutex.local[t],
                                       BitOr(mutex.local[t], LOCKED_BIT), spurious)
        IN mutex' = IF r.ok
                    THEN Acquired([mutex EXCEPT !.state = r.word], t,
                                  IF Bit(r.x, PARKED_BIT) THEN "barged" ELSE "grabbed")
                    ELSE [mutex EXCEPT !.local[t] = r.x, !.returned = FALSE]
    /\ Others

\* lock_slow: no queue and spinwait.spin() is true: load the state again
Spin(t) ==
    /\ At(t, "loop")
    /\ Bit(mutex.local[t], LOCKED_BIT) /\ ~Bit(mutex.local[t], PARKED_BIT)
    /\ mutex' = [mutex EXCEPT !.local[t] = mutex.state, !.returned = FALSE]
    /\ Others

\* lock_slow: no queue and spinwait.spin() is false: set the parked bit
SetParked(t) ==
    /\ At(t, "loop")
    /\ Bit(mutex.local[t], LOCKED_BIT) /\ ~Bit(mutex.local[t], PARKED_BIT)
    /\ \E spurious \in BOOLEAN :
        LET r == compare_exchange_weak(mutex.state, mutex.local[t],
                                       BitOr(mutex.local[t], PARKED_BIT), spurious)
        IN mutex' = IF r.ok THEN [Goes(t, "park") EXCEPT !.state = r.word]
                    ELSE [mutex EXCEPT !.local[t] = r.x, !.returned = FALSE]
    /\ Others

\* lock_slow: parking_lot_core::park, which under the lock of the queue
\* runs validate and either queues the thread and puts it to sleep or
\* returns at once (then: spinwait.reset(), load the state)
Park(t) ==
    /\ \/ At(t, "park")
       \/ /\ At(t, "loop")
          /\ Bit(mutex.local[t], LOCKED_BIT) /\ Bit(mutex.local[t], PARKED_BIT)
    /\ mutex.bucket.holder = 0
    /\ mutex' = IF validate(mutex.state)
                THEN [Goes(t, "parked") EXCEPT !.queue = Append(@, t)]
                ELSE Goes(t, "lock_slow")
    /\ Others

\* lock_slow: park returns in the woken thread, with the token of the
\* unparker: TOKEN_HANDOFF returns from lock, anything else loops
Unparked(t) ==
    /\ At(t, "unparked")
    /\ mutex' = IF mutex.token[t] = TOKEN_HANDOFF
                THEN Acquired([mutex EXCEPT !.token[t] = TOKEN_NORMAL], t, "handoff")
                ELSE [Goes(t, "lock_slow") EXCEPT !.token[t] = TOKEN_NORMAL]
    /\ Others

\* fn unlock: the compare_exchange_weak(LOCKED_BIT, 0)
Unlock(t) ==
    /\ At(t, "held")
    /\ \E spurious \in BOOLEAN :
        LET r == compare_exchange_weak(mutex.state, LOCKED_BIT, 0, spurious)
        IN mutex' = IF r.ok THEN [Goes(t, "idle") EXCEPT !.state = r.word, !.how[t] = ""]
                    ELSE [Goes(t, "unlock_slow") EXCEPT !.how[t] = ""]
    /\ Others

\* fn unlock_slow: unlock directly if there are no parked threads
UnlockSlow(t) ==
    /\ At(t, "unlock_slow")
    /\ LET r == compare_exchange(mutex.state, LOCKED_BIT, 0)
       IN mutex' = IF r.ok THEN [Goes(t, "idle") EXCEPT !.state = r.word]
                   ELSE Goes(t, "unpark_one")
    /\ Others

\* unlock_slow: parking_lot_core::unpark_one takes the lock of the queue and
\* removes the first thread parked on the address, if there is one
UnparkOne(t) ==
    /\ At(t, "unpark_one")
    /\ mutex.bucket.holder = 0
    /\ \E be_fair \in BOOLEAN :
        mutex' = [Goes(t, "callback") EXCEPT
                    !.bucket = [holder |-> t,
                                target |-> IF mutex.queue = <<>> THEN 0
                                           ELSE Head(mutex.queue),
                                result |-> unpark_result(mutex.queue, be_fair)],
                    !.queue = IF mutex.queue = <<>> THEN <<>> ELSE Tail(mutex.queue)]
    /\ Others

\* unlock_slow: unpark_one runs the callback, hands its token to the
\* removed thread, releases the queue and wakes the thread
Callback(t) ==
    /\ At(t, "callback")
    /\ LET c == callback(mutex.bucket.result, FALSE, mutex.state)
           target == mutex.bucket.target
           woken == IF target = 0 THEN mutex
                    ELSE [mutex EXCEPT !.pc[target] = "unparked",
                                       !.token[target] = c.token]
       IN mutex' = [woken EXCEPT !.pc[t] = "idle", !.state = c.word,
                                 !.returned = FALSE,
                                 !.bucket = [holder |-> 0, target |-> 0,
                                             result |-> NoResult]]
    /\ Others

MutexInit ==
    /\ BuildIdle /\ LayoutIdle /\ GeomIdle
    /\ DomIdle /\ CascadeIdle /\ PdfIdle
    /\ mutex = [phase |-> "run",
                state |-> 0,
                queue |-> <<>>,
                bucket |-> [holder |-> 0, target |-> 0, result |-> NoResult],
                pc |-> [t \in Threads |-> "idle"],
                local |-> [t \in Threads |-> 0],
                token |-> [t \in Threads |-> TOKEN_NORMAL],
                how |-> [t \in Threads |-> ""],
                returned |-> FALSE]

\* what thread t does once it has called lock(): the rest of lock() and,
\* when it holds the mutex, unlock()
Proceed(t) ==
    \/ LockSlowLoad(t)
    \/ Grab(t)
    \/ Spin(t)
    \/ SetParked(t)
    \/ Park(t)
    \/ Unparked(t)
    \/ Unlock(t)
    \/ UnlockSlow(t)
    \/ UnparkOne(t)
    \/ Callback(t)

MutexNext == \E t \in Threads : Lock(t) \/ Proceed(t)

MutexSpec == MutexInit /\ [][MutexNext]_vars

\* the threads between their return from lock() and their call of unlock()
Holders == { t \in Threads : mutex.pc[t] = "held" }

\* the threads that own the mutex: those, the ones inside unlock() that have
\* not released or handed over the mutex yet, and a woken thread that was
\* handed the mutex and has not returned from lock() yet
Owners ==
    { t \in Threads :
        \/ mutex.pc[t] \in {"held", "unlock_slow", "unpark_one", "callback"}
        \/ mutex.pc[t] = "unparked" /\ mutex.token[t] = TOKEN_HANDOFF }

\* C34: RawMutex gives mutual exclusion: in every interleaving at most one
\* thread is between its return from lock() and its call of unlock(), and
\* LOCKED_BIT is set as long as it is, also when the thread barged in while
\* PARKED_BIT was set or got the mutex handed over; a thread inside the
\* slow path of unlock() excludes the others as well until it releases, and
\* from a hand-off to the return of lock() in the woken thread the mutex
\* stays locked and nobody else holds it.
MutualExclusion ==
    /\ Cardinality(Holders) <= 1
    /\ Cardinality(Owners) <= 1
    /\ Owners # {} => Bit(mutex.state, LOCKED_BIT)

\* the mutex was handed over to a woken thread while another is parked
HeldByHandOffWithQueue ==
    \E t \in Threads :
        /\ mutex.pc[t] = "held"
        /\ mutex.how[t] = "handoff"
        /\ mutex.queue # <<>>
        /\ mutex.state = LOCKED_BIT + PARKED_BIT

\* a thread took the mutex in lock_slow while PARKED_BIT was set
HeldByBarging ==
    \E t \in Threads :
        /\ mutex.pc[t] = "held"
        /\ mutex.how[t] = "barged"
        /\ mutex.queue # <<>>

\* thread t is put into the queue by the step
GoesToSleep(t) ==
    /\ \A i \in 1..Len(mutex.queue) : mutex.queue[i] # t
    /\ \E i \in 1..Len(mutex'.queue) : mutex'.queue[i] = t

\* C35: whenever a thread is parked in the queue of the mutex, PARKED_BIT
\* is set in the state word, so no thread stays parked while the state is 0
\* or LOCKED_BIT alone; a thread goes to sleep only in a step that finds the
\* state to be exactly LOCKED_BIT|PARKED_BIT; and PARKED_BIT is cleared only
\* by the callback of unlock_slow for a result without more parked
\* threads, when the queue is empty.
ParkedThreadsKeepParkedBit ==
    /\ [](mutex.queue # <<>> => Bit(mutex.state, PARKED_BIT))
    /\ [][\A t \in Threads :
            GoesToSleep(t) => /\ mutex.state = LOCKED_BIT + PARKED_BIT
                              /\ mutex'.state = mutex.state
                              /\ mutex.pc[t] \in {"park", "loop"}
                              /\ mutex'.pc[t] = "parked"]_vars
    /\ [][(Bit(mutex.state, PARKED_BIT) /\ ~Bit(mutex'.state, PARKED_BIT)) =>
            /\ mutex.bucket.holder # 0
            /\ mutex.pc[mutex.bucket.holder] = "callback"
            /\ ~mutex.bucket.result.have_more_threads
            /\ mutex.queue = <<>>]_vars

\* one of two parked threads was woken by an unlock: the other is still
\* parked, the mutex is free and PARKED_BIT alone is set
ParkedWhileUnlocked ==
    /\ mutex.queue # <<>>
    /\ mutex.state = PARKED_BIT
    /\ \E t \in Threads : mutex.pc[t] = "unparked" /\ mutex.token[t] = TOKEN_NORMAL

\* lock_slow and unlock under fair scheduling: every thread that has called
\* lock() keeps taking steps, through lock() and, once it holds the mutex,
\* through unlock(); no thread has to call lock(). A compare_exchange_weak
\* does not fail spuriously for ever.
MutexFairSpec == MutexSpec /\ \A t \in Threads : WF_vars(Proceed(t))

\* thread t has called lock() and has not returned from it
InsideLock(t) ==
    mutex.pc[t] \in {"lock_slow", "loop", "park", "parked", "unparked"}

\* C36: RawMutex is free of deadlock: under fair scheduling, with every
\* holder calling unlock() eventually, whenever a thread is inside lock()
\* some thread eventually returns from lock().
SomeLockReturns ==
    (\E t \in Threads : InsideLock(t)) ~> mutex.returned

\* a parked thread was woken by an unlock and returned from lock()
WokenThreadHoldsMutex ==
    \E t \in Threads :
        /\ mutex.pc[t] = "held"
        /\ mutex.returned
        /\ mutex.how[t] \in {"handoff", "barged"}
        /\ mutex.queue # <<>>

----------------------------------------------------------------------------
(* The links of the DOM tree (dom/mod.rs): Node::detach, Node::append and  *)
(* Node::insert_before. A Link is a node or NoNode (None).                 *)

\* nodes of the arena
MaxDomNodes == 4
DomNodes == 1..MaxDomNodes
NoNode == 0

\* Node::new for every node of the arena; failed: a debug assertion failed
NewNodes ==
    [parent |-> [n \in DomNodes |-> NoNode],
     next_sibling |-> [n \in DomNodes |-> NoNode],
     previous_sibling |-> [n \in DomNodes |-> NoNode],
     first_child |-> [n \in DomNodes |-> NoNode],
     last_child |-> [n \in DomNodes |-> NoNode],
     failed |-> FALSE]

\* fn detach
DetachForgetsParent(d, self) ==
    LET previous_sibling == d.previous_sibling[self]
        next_sibling == d.next_sibling[self]
        taken == [d EXCEPT !.parent[self] = NoNode,
                           !.previous_sibling[self] = NoNode,
                           !.next_sibling[self] = NoNode]
        after_next ==
            IF next_sibling # NoNode
            THEN [taken EXCEPT !.previous_sibling[next_sibling] = previous_sibling]
            ELSE taken
    IN IF previous_sibling # NoNode
       THEN [after_next EXCEPT !.next_sibling[previous_sibling] = next_sibling]
       ELSE after_next
detach(d, self) ==
    LET parent == d.parent[self]
        previous_sibling == d.previous_sibling[self]
        next_sibling == d.next_sibling[self]
        taken == [d EXCEPT !.parent[self] = NoNode,
                           !.previous_sibling[self] = NoNode,
                           !.next_sibling[self] = NoNode]
        after_next ==
            IF next_sibling # NoNode
            THEN [taken EXCEPT !.previous_sibling[next_sibling] = previous_sibling]
            ELSE IF parent # NoNode
                 THEN [taken EXCEPT !.last_child[parent] = previous_sibling]
                 ELSE taken
    IN IF previous_sibling # NoNode
       THEN [after_next EXCEPT !.next_sibling[previous_sibling] = next_sibling]
       ELSE IF parent # NoNode
            THEN [after_next EXCEPT !.first_child[parent] = next_sibling]
            ELSE after_next

\* a failed debug_assert! panics: the links stay as they are at that point
Failed(d) == [d EXCEPT !.failed = TRUE]

\* fn append
AppendWithoutDetach(d, self, new_child) ==
    LET adopted == [d EXCEPT !.parent[new_child] = self]
        last_child == adopted.last_child[self]
        linked ==
            IF last_child # NoNode
            THEN [adopted EXCEPT !.previous_sibling[new_child] = last_child,
                                 !.next_sibling[last_child] = new_child]
            ELSE [adopted EXCEPT !.first_child[self] = new_child]
    IN [linked EXCEPT !.last_child[self] = new_child]
append(d, self, new_child) ==
    LET adopted == [detach(d, new_child) EXCEPT !.parent[new_child] = self]
        last_child == adopted.last_child[self]
        taken == [adopted EXCEPT !.last_child[self] = NoNode]
    IN IF last_child # NoNode
       THEN LET set == [taken EXCEPT !.previous_sibling[new_child] = last_child]
            IN IF set.next_sibling[last_child] # NoNode THEN Failed(set)
               ELSE [set EXCEPT !.next_sibling[last_child] = new_child,
                                !.last_child[self] = new_child]
       ELSE IF taken.first_child[self] # NoNode THEN Failed(taken)
            ELSE [taken EXCEPT !.first_child[self] = new_child,
                               !.last_child[self] = new_child]

\* fn insert_before
InsertBeforeKeepsFirstChild(d, self, new_sibling) ==
    LET detached == detach(d, new_sibling)
        set == [detached EXCEPT !.parent[new_sibling] = detached.parent[self],
                                !.next_sibling[new_sibling] = self]
        previous_sibling == set.previous_sibling[self]
    IN IF previous_sibling # NoNode
       THEN [set EXCEPT !.previous_sibling[new_sibling] = previous_sibling,
                        !.next_sibling[previous_sibling] = new_sibling,
                        !.previous_sibling[self] = new_sibling]
       ELSE [set EXCEPT !.previous_sibling[self] = new_sibling]
insert_before(d, self, new_sibling) ==
    LET detached == detach(d, new_sibling)
        set == [detached EXCEPT !.parent[new_sibling] = detached.parent[self],
                                !.next_sibling[new_sibling] = self]
        previous_sibling == set.previous_sibling[self]
        taken == [set EXCEPT !.previous_sibling[self] = NoNode]
        parent == taken.parent[self]
    IN IF previous_sibling # NoNode
       THEN LET linked == [taken EXCEPT !.previous_sibling[new_sibling] = previous_sibling]
            IN IF linked.next_sibling[previous_sibling] # self THEN Failed(linked)
               ELSE [linked EXCEPT !.next_sibling[previous_sibling] = new_sibling,
                                   !.previous_sibling[self] = new_sibling]
       ELSE IF parent # NoNode
            THEN IF taken.first_child[parent] # self THEN Failed(taken)
                 ELSE [taken EXCEPT !.first_child[parent] = new_sibling,
                                    !.previous_sibling[self] = new_sibling]
            ELSE [taken EXCEPT !.previous_sibling[self] = new_sibling]

\* node a is node n or one of its ancestors (looking up to depth parents up)
RECURSIVE IsInclusiveAncestor(_, _, _, _)
IsInclusiveAncestor(d, a, n, depth) ==
    \/ a = n
    \/ /\ depth > 0
       /\ d.parent[n] # NoNode
       /\ IsInclusiveAncestor(d, a, d.parent[n], depth - 1)

\* op: ghost, the last call, and whether it moved a node that had a next
\* sibling to another place under the same parent
DomRuns == dom.phase = "run" /\ ~dom.links.failed
Called(name, self, arg, links) ==
    LET moved == IF arg = NoNode THEN self ELSE arg
    IN dom' = [phase |-> "run", links |-> links,
               op |-> [name |-> name, self |-> self, arg |-> arg,
                       reordered |-> /\ dom.links.next_sibling[moved] # NoNode
                                     /\ dom.links.parent[moved] # NoNode
                                     /\ dom.links.parent[moved] = links.parent[moved]]]
DomOthers == UNCHANGED <<buildVars, layoutVars, geomVars, mutex, casc, pdf>>

\* node.detach()
Detach ==
    /\ DomRuns
    /\ \E self \in DomNodes : Called("detach", self, NoNode, detach(dom.links, self))
    /\ DomOthers

\* parent.append(new_child), new_child not parent nor an ancestor of it
DomAppend ==
    /\ DomRuns
    /\ \E self \in DomNodes, new_child \in DomNodes :
        /\ ~IsInclusiveAncestor(dom.links, new_child, self, MaxDomNodes)
        /\ Called("append", self, new_child, append(dom.links, self, new_child))
    /\ DomOthers

\* sibling.insert_before(new_sibling), new_sibling not sibling nor an
\* ancestor of it
InsertBefore ==
    /\ DomRuns
    /\ \E self \in DomNodes, new_sibling \in DomNodes :
        /\ ~IsInclusiveAncestor(dom.links, new_sibling, self, MaxDomNodes)
        /\ Called("insert_before", self, new_sibling,
                  insert_before(dom.links, self, new_sibling))
    /\ DomOthers

DomInit ==
    /\ BuildIdle /\ LayoutIdle /\ GeomIdle
    /\ MutexIdle /\ CascadeIdle /\ PdfIdle
    /\ dom = [phase |-> "run", links |-> NewNodes,
              op |-> [name |-> "new", self |-> NoNode, arg |-> NoNode,
                      reordered |-> FALSE]]

DomNext == Detach \/ DomAppend \/ InsertBefore

DomSpec == DomInit /\ [][DomNext]_vars

\* the nodes reached from node n by next_sibling, n first
RECURSIVE SiblingsFrom(_, _, _)
SiblingsFrom(d, n, fuel) ==
    IF n = NoNode \/ fuel = 0 THEN <<>>
    ELSE <<n>> \o SiblingsFrom(d, d.next_sibling[n], fuel - 1)

\* the children of node p as child_text_content walks them
ChildrenOf(d, p) == SiblingsFrom(d, d.first_child[p], MaxDomNodes + 1)

LinksConsistent(d) ==
    /\ \A n \in DomNodes, m \in DomNodes :
        d.next_sibling[n] = m <=> d.previous_sibling[m] = n
    /\ \A n \in DomNodes :
        d.next_sibling[n] # NoNode => d.parent[d.next_sibling[n]] = d.parent[n]
    /\ \A p \in DomNodes :
        /\ d.first_child[p] # NoNode => d.previous_sibling[d.first_child[p]] = NoNode
        /\ d.last_child[p] # NoNode => d.next_sibling[d.last_child[p]] = NoNode
        /\ d.first_child[p] = NoNode <=> d.last_child[p] = NoNode
        /\ LET children == ChildrenOf(d, p)
           IN /\ { children[i] : i \in 1..Len(children) }
                    = { n \in DomNodes : d.parent[n] = p }
              /\ Len(children) = Cardinality({ n \in DomNodes : d.parent[n] = p })
              /\ children # <<>> => Last(children) = d.last_child[p]

\* C37: after any sequence of detach, append and insert_before calls on
\* distinct nodes that never put a node under itself or a descendant, the
\* links are consistent: next_sibling and previous_sibling mirror each
\* other, siblings have the same parent, a first child has no previous and
\* a last child no next sibling, first_child and last_child are None
\* together, the walk from first_child along next_sibling visits exactly
\* the nodes with that parent and ends at last_child; and no debug
\* assertion of append or insert_before has failed.
DomLinksConsistent ==
    /\ ~dom.links.failed
    /\ LinksConsistent(dom.links)

\* a node that has a child was moved by insert_before in front of the
\* first child of another node
SubtreeInsertedBeforeFirstChild ==
    /\ dom.op.name = "insert_before"
    /\ dom.links.parent[dom.op.self] # NoNode
    /\ dom.links.first_child[dom.links.parent[dom.op.self]] = dom.op.arg
    /\ dom.links.first_child[dom.op.arg] # NoNode

\* the sequence seq without node c; with c put in front of node t
Without(seq, c) ==
    LET Other(n) == n # c IN SelectSeq(seq, Other)
RECURSIVE InsertedBefore(_, _, _)
InsertedBefore(seq, t, c) ==
    IF seq = <<>> THEN <<>>
    ELSE IF Head(seq) = t THEN <<c>> \o seq
         ELSE <<Head(seq)>> \o InsertedBefore(Tail(seq), t, c)

\* the list of siblings node n is in, from its first node on
RECURSIVE FirstSiblingOf(_, _, _)
FirstSiblingOf(d, n, fuel) ==
    IF d.previous_sibling[n] = NoNode \/ fuel = 0 THEN n
    ELSE FirstSiblingOf(d, d.previous_sibling[n], fuel - 1)
SiblingListOf(d, n) ==
    SiblingsFrom(d, FirstSiblingOf(d, n, MaxDomNodes + 1), MaxDomNodes + 1)
Occurs(seq, n) == \E i \in 1..Len(seq) : seq[i] = n

\* what a call leaves alone when it moves node c into the sibling list
\* destination (a sequence of the nodes that were there before) of the
\* parent into: the parents of the other nodes, the children of c, and
\* every other sibling list but for c leaving it
MovedOnly(before, after, c, destination, into) ==
    /\ \A n \in DomNodes \ {c} : after.parent[n] = before.parent[n]
    /\ after.first_child[c] = before.first_child[c]
    /\ after.last_child[c] = before.last_child[c]
    /\ ChildrenOf(after, c) = ChildrenOf(before, c)
    /\ \A n \in DomNodes \ {c} :
        ~Occurs(destination, n) =>
            SiblingListOf(after, n) = Without(SiblingListOf(before, n), c)
    /\ \A q \in DomNodes :
        (q # c /\ q # into) =>
            ChildrenOf(after, q) = Without(ChildrenOf(before, q), c)
    /\ Cardinality({ q \in DomNodes : Occurs(ChildrenOf(after, q), c) })
            = IF after.parent[c] = NoNode THEN 0 ELSE 1

AppendMoves(before, after, self, c) ==
    /\ MovedOnly(before, after, c, ChildrenOf(before, self), self)
    /\ after.parent[c] = self
    /\ after.last_child[self] = c
    /\ ChildrenOf(after, self) = Append(Without(ChildrenOf(before, self), c), c)

InsertBeforeMoves(before, after, self, c) ==
    /\ MovedOnly(before, after, c, SiblingListOf(before, self), before.parent[self])
    /\ after.parent[c] = before.parent[self]
    /\ after.next_sibling[c] = self
    /\ SiblingListOf(after, self)
            = InsertedBefore(Without(SiblingListOf(before, self), c), self, c)
    /\ before.parent[self] # NoNode =>
            ChildrenOf(after, before.parent[self]) = SiblingListOf(after, self)

DetachLeaves(before, after, self) ==
    /\ MovedOnly(before, after, self, <<>>, NoNode)
    /\ after.parent[self] = NoNode
    /\ after.next_sibling[self] = NoNode
    /\ after.previous_sibling[self] = NoNode
    /\ detach(after, self) = after

\* C38: append(c) and insert_before(c) move c: afterwards c is the last
\* child of the target, or the node right before the target among its
\* siblings with the parent of the target, and occurs nowhere else; the
\* other children of the old and of the new parent keep their order, every
\* other node keeps its parent and c keeps its children. detach leaves the
\* node without parent and siblings, keeps its children, takes it out of
\* the list it was in and changes nothing when called again.
CallsMoveOneNode ==
    [][/\ dom'.op.name = "append" =>
            AppendMoves(dom.links, dom'.links, dom'.op.self, dom'.op.arg)
       /\ dom'.op.name = "insert_before" =>
            InsertBeforeMoves(dom.links, dom'.links, dom'.op.self, dom'.op.arg)
       /\ dom'.op.name = "detach" =>
            DetachLeaves(dom.links, dom'.links, dom'.op.self)]_vars

\* append has moved the first of the three children of a node to the end
FirstChildMovedToEnd ==
    /\ dom.op.name = "append"
    /\ dom.op.reordered
    /\ Len(ChildrenOf(dom.links, dom.op.self)) = 3
    /\ dom.links.last_child[dom.op.self] = dom.op.arg

----------------------------------------------------------------------------
(* The cascade (style/cascade.rs) for one property of one element: the     *)
(* rules of the user-agent and the author stylesheets, the style           *)
(* attribute, and the four passes of MatchingDeclarations::cascade.        *)

\* rules of the author stylesheets, and the largest specificity of a selector
MaxAuthorRules == 2
MaxSpecificity == 1

\* A declaration block holding one declaration of the property, with the
\* value named after the place it comes from: <<"ua", n>>, <<"author", n>>
\* for the n-th rule of the stylesheet, <<"attr", 0>>
DeclarationBlock(important, value) == [important |-> important, value |-> value]
\* A rule of a StyleSet: (selector, block); of the selector, its
\* specificity and whether it matches the element
Rule(specificity, matches, block) ==
    [specificity |-> specificity, matches |-> matches, block |-> block]

\* StyleSetBuilder::finish: rules.sort_by_key(specificity), a stable sort
FinishInDocumentOrder(rules) == rules
RECURSIVE finish(_)
finish(rules) ==
    IF rules = <<>> THEN <<>>
    ELSE LET sorted == finish(Front(rules))
             rule == Last(rules)
             LowerOrEqual(r) == r.specificity <= rule.specificity
             Higher(r) == r.specificity > rule.specificity
         IN SelectSeq(sorted, LowerOrEqual) \o <<rule>> \o SelectSeq(sorted, Higher)

\* StyleSet::push_matching: the blocks of the matching rules, in order
RECURSIVE push_matching(_, _)
push_matching(rules, into) ==
    IF rules = <<>> THEN into
    ELSE push_matching(Tail(rules),
            IF Head(rules).matches THEN Append(into, Head(rules).block) ELSE into)

\* fn style_for_element: the MatchingDeclarations handed to ComputedValues::new
StyleAttributeFirst(user_agent, author, style_attr) ==
    [ua |-> push_matching(user_agent, <<>>),
     author |-> push_matching(author,
                    IF style_attr.kind = "Some" THEN <<style_attr.block>> ELSE <<>>)]
style_for_element(user_agent, author, style_attr) ==
    LET matching == [ua |-> push_matching(user_agent, <<>>),
                     author |-> push_matching(author, <<>>)]
    IN IF style_attr.kind = "Some"
       THEN [matching EXCEPT !.author = Append(@, style_attr.block)]
       ELSE matching

\* DeclarationBlock::cascade_normal / cascade_important: the declarations of
\* that importance are applied to the computed values, the later value
\* replacing the earlier one; applied: ghost, what was applied, in order
cascade_block(block, important, origin, p) ==
    IF block.important = important
    THEN [value |-> block.value,
          applied |-> Append(p.applied, [origin |-> origin, important |-> important,
                                         value |-> block.value])]
    ELSE p
RECURSIVE for_each_cascade(_, _, _, _)
for_each_cascade(blocks, important, origin, p) ==
    IF blocks = <<>> THEN p
    ELSE for_each_cascade(Tail(blocks), important, origin,
                          cascade_block(Head(blocks), important, origin, p))

\* MatchingDeclarations::cascade: its four passes, in order
CascadeImportantInOriginOrder ==
    << [origin |-> "ua", important |-> FALSE],
       [origin |-> "author", important |-> FALSE],
       [origin |-> "ua", important |-> TRUE],
       [origin |-> "author", important |-> TRUE] >>
cascade ==
    << [origin |-> "ua", important |-> FALSE],
       [origin |-> "author", important |-> FALSE],
       [origin |-> "author", important |-> TRUE],
       [origin |-> "ua", important |-> TRUE] >>

NoStyleAttribute == [kind |-> "None"]
StyleAttribute(block) == [kind |-> "Some", block |-> block]

\* the stylesheets and style attributes the cascade runs are drawn from
AuthorRules ==
    { Rule(specificity, matches, DeclarationBlock(important, <<"author", 0>>)) :
        specificity \in 0..MaxSpecificity, matches \in BOOLEAN, important \in BOOLEAN }
UserAgentStylesheets ==
    LET normal == Rule(0, TRUE, DeclarationBlock(FALSE, <<"ua", 1>>))
        important == Rule(0, TRUE, DeclarationBlock(TRUE, <<"ua", 2>>))
    IN { <<>>, <<normal>>, <<important>>, <<normal, important>> }
StyleAttributes ==
    { NoStyleAttribute } \cup
    { StyleAttribute(DeclarationBlock(important, <<"attr", 0>>)) : important \in BOOLEAN }

\* the n-th author rule gets a value of its own
RECURSIVE Numbered(_, _)
Numbered(rules, n) ==
    IF rules = <<>> THEN <<>>
    ELSE Append(Numbered(Front(rules), n - 1),
                [Last(rules) EXCEPT !.block.value = <<"author", n>>])

CascadeAt(phase) == casc.phase = phase
CascadeOthers == UNCHANGED <<buildVars, layoutVars, geomVars, mutex, dom, pdf>>

\* StyleSetBuilder::finish for USER_AGENT_STYLESHEET and the author StyleSet
Finish ==
    /\ CascadeAt("builder")
    /\ casc' = [casc EXCEPT !.phase = "style_set",
                            !.user_agent = finish(@),
                            !.author = finish(@)]
    /\ CascadeOthers

\* style_for_element, up to ComputedValues::new
StyleForElement ==
    /\ CascadeAt("style_set")
    /\ casc' = [casc EXCEPT !.phase = "cascade",
                            !.matching = style_for_element(casc.user_agent, casc.author,
                                                           casc.style_attr)]
    /\ CascadeOthers

\* MatchingDeclarations::cascade: one for_each of the four
CascadePass ==
    /\ CascadeAt("cascade")
    /\ LET pass == cascade[casc.pass]
           blocks == IF pass.origin = "ua" THEN casc.matching.ua ELSE casc.matching.author
       IN casc' = [casc EXCEPT !.p = for_each_cascade(blocks, pass.important, pass.origin, @),
                               !.pass = @ + 1,
                               !.phase = IF casc.pass = Len(cascade) THEN "done" ELSE @]
    /\ CascadeOthers

CascadeInit ==
    /\ BuildIdle /\ LayoutIdle /\ GeomIdle
    /\ MutexIdle /\ DomIdle /\ PdfIdle
    /\ \E user_agent \in UserAgentStylesheets,
          author \in SeqsUpTo(AuthorRules, MaxAuthorRules),
          style_attr \in StyleAttributes :
        casc = [phase |-> "builder",
                user_agent |-> user_agent,
                author |-> Numbered(author, Len(author)),
                style_attr |-> style_attr,
                matching |-> [ua |-> <<>>, author |-> <<>>],
                pass |-> 1,
                p |-> [value |-> <<"initial", 0>>, applied |-> <<>>]]

CascadeNext == Finish \/ StyleForElement \/ CascadePass

CascadeSpec == CascadeInit /\ [][CascadeNext]_vars

\* the place of a pass in the order of the cascade: user-agent normal,
\* author normal, author important, user-agent important
PlaceInCascade(origin, important) ==
    CASE origin = "ua" /\ ~important -> 1
      [] origin = "author" /\ ~important -> 2
      [] origin = "author" /\ important -> 3
      [] origin = "ua" /\ important -> 4

\* the matching declarations of one importance, by origin
UserAgentDeclared(important) ==
    { r \in { casc.user_agent[i] : i \in 1..Len(casc.user_agent) } :
        r.matches /\ r.block.important = important }
AuthorRulesDeclaring(important) ==
    { r \in { casc.author[i] : i \in 1..Len(casc.author) } :
        r.matches /\ r.block.important = important }
AttributeDeclares(important) ==
    casc.style_attr.kind = "Some" /\ casc.style_attr.block.important = important

\* the author rule that wins among rules: the most specific one, the later
\* one in the stylesheet among equally specific ones
WinningRule(rules) ==
    CHOOSE r \in rules :
        \A other \in rules :
            \/ other.specificity < r.specificity
            \/ other.specificity = r.specificity /\ other.block.value[2] <= r.block.value[2]

\* the value the author's declarations of one importance give
AuthorValue(important) ==
    IF AttributeDeclares(important) THEN casc.style_attr.block.value
    ELSE WinningRule(AuthorRulesDeclaring(important)).block.value
AuthorDeclares(important) ==
    AttributeDeclares(important) \/ AuthorRulesDeclaring(important) # {}

\* the value the cascade has to end with
CascadedValue ==
    IF UserAgentDeclared(TRUE) # {} THEN <<"ua", 2>>
    ELSE IF AuthorDeclares(TRUE) THEN AuthorValue(TRUE)
    ELSE IF AuthorDeclares(FALSE) THEN AuthorValue(FALSE)
    ELSE IF UserAgentDeclared(FALSE) # {} THEN <<"ua", 1>>
    ELSE <<"initial", 0>>

\* C39: the cascade applies the matching declarations in the order
\* user-agent normal, author normal, author important, user-agent
\* important, the style attribute after the author rules of the same
\* importance, each one replacing the value before; so the property ends
\* with the user-agent important value if there is one, else the author
\* important one, else the author normal one, else the user-agent normal
\* one, and among the author's with the style attribute's.
CascadeOrderLastWins ==
    /\ \A i \in 1..Len(casc.p.applied), j \in 1..Len(casc.p.applied) :
        i < j =>
            /\ PlaceInCascade(casc.p.applied[i].origin, casc.p.applied[i].important)
                    <= PlaceInCascade(casc.p.applied[j].origin, casc.p.applied[j].important)
            /\ (casc.p.applied[i].value = <<"attr", 0>>) =>
                    casc.p.applied[i].important # casc.p.applied[j].important
                    \/ casc.p.applied[j].origin # "author"
    /\ casc.p.applied # <<>> => casc.p.value = Last(casc.p.applied).value
    /\ CascadeAt("done") => casc.p.value = CascadedValue

\* all four kinds of declaration and a style attribute matched: five values
\* were applied and the user-agent important one is left
AllOriginsDeclared ==
    /\ CascadeAt("done")
    /\ Len(casc.p.applied) = 5
    /\ casc.p.applied[2].origin = "author" /\ ~casc.p.applied[2].important
    /\ casc.p.applied[3].origin = "author" /\ casc.p.applied[3].important
    /\ casc.p.applied[4].value = <<"attr", 0>>
    /\ casc.p.value = <<"ua", 2>>

----------------------------------------------------------------------------
(* The structure of a PDF document (pdf/document_structure.rs):            *)
(* PdfDocument::new, write_page and finish, over a PdfFile that assigns    *)
(* object ids and writes objects. Each write may fail with an io::Error.   *)

\* write_page calls on one document
MaxPages == 3

\* PdfFile::new
NewPdfFile == [next_id |-> 1, objects |-> <<>>]

\* PdfFile::assign_object_id: the id it returns, and the file after it
assigned_object_id(file) == file.next_id
assign_object_id(file) == [file EXCEPT !.next_id = @ + 1]

\* PdfFile::write_object(id, ..) without an io::Error: the object is in the file
write_object(file, object) == [file EXCEPT !.objects = Append(@, object)]

\* fn write_stream: the stream object and the object of its length; failure
\* is "stream", "length" or "none"
write_stream(file, id, failure) ==
    LET length_id == assigned_object_id(file)
        assigned == assign_object_id(file)
    IN IF failure = "stream" THEN [file |-> assigned, ok |-> FALSE]
       ELSE LET streamed == write_object(assigned,
                                [id |-> id, type |-> "Stream", length |-> length_id])
            IN IF failure = "length" THEN [file |-> streamed, ok |-> FALSE]
               ELSE [file |-> write_object(streamed, [id |-> length_id, type |-> "Length"]),
                     ok |-> TRUE]

\* fn write_page; failure is "page", "stream", "length" or "none"
WritePagePushesContentsId(doc, failure) ==
    LET page_tree_id == doc.page_tree_id
        page_id == assigned_object_id(doc.file)
        contents_id == assigned_object_id(assign_object_id(doc.file))
        pushed == [doc EXCEPT !.file = assign_object_id(assign_object_id(@)),
                              !.page_objects_ids = Append(@, contents_id)]
    IN IF failure = "page" THEN [pushed EXCEPT !.last = "Err"]
       ELSE LET page == [id |-> page_id, type |-> "Page", parent |-> page_tree_id,
                         contents |-> contents_id]
                stream == write_stream(write_object(pushed.file, page), contents_id, failure)
            IN [pushed EXCEPT !.file = stream.file,
                              !.last = IF stream.ok THEN "Ok" ELSE "Err"]
write_page(doc, failure) ==
    LET page_tree_id == doc.page_tree_id
        page_id == assigned_object_id(doc.file)
        contents_id == assigned_object_id(assign_object_id(doc.file))
        pushed == [doc EXCEPT !.file = assign_object_id(assign_object_id(@)),
                              !.page_objects_ids = Append(@, page_id)]
    IN IF failure = "page" THEN [pushed EXCEPT !.last = "Err"]
       ELSE LET page == [id |-> page_id, type |-> "Page", parent |-> page_tree_id,
                         contents |-> contents_id]
                stream == write_stream(write_object(pushed.file, page), contents_id, failure)
            IN [pushed EXCEPT !.file = stream.file,
                              !.last = IF stream.ok THEN "Ok" ELSE "Err"]

\* fn finish; failure is "pages", "catalog" or "none"
pdf_finish(doc, failure) ==
    IF failure = "pages" THEN [doc EXCEPT !.last = "Err", !.phase = "dropped"]
    ELSE LET pages == [id |-> doc.page_tree_id, type |-> "Pages",
                       count |-> Len(doc.page_objects_ids),
                       kids |-> doc.page_objects_ids]
             with_pages == write_object(doc.file, pages)
             catalog_id == assigned_object_id(with_pages)
             assigned == assign_object_id(with_pages)
         IN IF failure = "catalog"
            THEN [doc EXCEPT !.file = assigned, !.last = "Err", !.phase = "dropped"]
            ELSE [doc EXCEPT !.file = write_object(assigned,
                                        [id |-> catalog_id, type |-> "Catalog",
                                         pages |-> doc.page_tree_id]),
                             !.last = "Ok", !.phase = "finished"]

PdfOpen == pdf.phase = "open"
PdfOthers == UNCHANGED <<buildVars, layoutVars, geomVars, mutex, dom, casc>>

\* document.write_page(width, height, render_contents); calls: ghost, the
\* page ids of the calls so far, in order
WritePage ==
    /\ PdfOpen
    /\ Len(pdf.calls) < MaxPages
    /\ \E failure \in {"none", "page", "stream", "length"} :
        pdf' = [write_page(pdf, failure) EXCEPT
                    !.calls = Append(@, assigned_object_id(pdf.file))]
    /\ PdfOthers

\* document.finish()
PdfFinish ==
    /\ PdfOpen
    /\ \E failure \in {"none", "pages", "catalog"} : pdf' = pdf_finish(pdf, failure)
    /\ PdfOthers

\* PdfDocument::new
PdfInit ==
    /\ BuildIdle /\ LayoutIdle /\ GeomIdle
    /\ MutexIdle /\ DomIdle /\ CascadeIdle
    /\ pdf = [phase |-> "open",
              file |-> assign_object_id(NewPdfFile),
              page_tree_id |-> assigned_object_id(NewPdfFile),
              page_objects_ids |-> <<>>,
              calls |-> <<>>,
              last |-> "Ok"]

PdfNext == WritePage \/ PdfFinish

PdfSpec == PdfInit /\ [][PdfNext]_vars

\* the objects written to the file so far
PdfObjects == { pdf.file.objects[i] : i \in 1..Len(pdf.file.objects) }

\* C40: after n write_page calls and finish, the page tree object written
\* by finish has /Count n and the page ids of the calls, in their order, as
\* /Kids; every page object written names the page tree id assigned in new
\* as /Parent; and no page, stream or length object has the id of the page
\* tree, which only the page tree object uses.
PageTreeListsPagesInOrder ==
    /\ \A o \in PdfObjects :
        /\ o.type = "Page" => o.parent = pdf.page_tree_id /\ o.id \in { pdf.calls[i] : i \in 1..Len(pdf.calls) }
        /\ o.type \in {"Page", "Stream", "Length", "Catalog"} => o.id # pdf.page_tree_id
        /\ o.type = "Pages" =>
            /\ o.id = pdf.page_tree_id
            /\ o.count = Len(pdf.calls)
            /\ o.kids = pdf.calls
    /\ \A i \in 1..Len(pdf.file.objects), j \in 1..Len(pdf.file.objects) :
        i # j => pdf.file.objects[i].id # pdf.file.objects[j].id
    /\ \A i \in 1..Len(pdf.calls) : pdf.calls[i] # pdf.page_tree_id
    /\ pdf.phase = "finished" =>
        \E o \in PdfObjects : o.type = "Pages" /\ o.kids = pdf.calls

\* three pages were written and the document finished
ThreePagesFinished ==
    /\ pdf.phase = "finished"
    /\ Len(pdf.calls) = 3
    /\ Cardinality({ o \in PdfObjects : o.type = "Page" }) = 3
    /\ \E o \in PdfObjects : o.type = "Pages" /\ o.count = 3 /\ Len(o.kids) = 3

====
